---------------------------- MODULE Spec2Model ----------------------------
(***************************************************************************)
(* A model of the 3GPP change-request tracking pipeline (src/main.py) and  *)
(* of the web front-end's state channels (src/app.py).                     *)
(*                                                                         *)
(* The pure stages of the pipeline are operators computed the way the      *)
(* code computes them; each has a specification of its own whose Init      *)
(* draws the stage's input from a bounded set and whose action applies it: *)
(*   SpecFolders   get_sorted_meeting_folders                              *)
(*   SpecFilter    filter_approved_crs                                     *)
(*   SpecMatcher   search_docx_for_clauses                                 *)
(* process_rp_archive, which works on the scratch directory, is a state    *)
(* machine, one action per step of the function (SpecFetch).               *)
(* The orchestrators run the stages on a server drawn in Init: SpecRun for *)
(* run_complete_workflow and the __main__ block of src/main.py,            *)
(* SpecTracking for run_spec_tracking, which src/app.py imports and runs   *)
(* and which is not among the source files: it is modelled from the        *)
(* specification's section 4.6.                                            *)
(***************************************************************************)
EXTENDS Naturals, Integers, Sequences, FiniteSets, TLC

VARIABLES
    index_response,   \* the folder index page request's outcome (input)
    folders_out,      \* what get_sorted_meeting_folders did with it
    excel_file,       \* the spreadsheet at excel_path (input)
    spec_number,      \* filter_approved_crs' second argument (input)
    crs_out,          \* what filter_approved_crs did with them
    docx_file,        \* the document at docx_path (input)
    clauses_db,       \* search_docx_for_clauses' second argument (input)
    match_out,        \* what search_docx_for_clauses did with them
    fpc,              \* process_rp_archive: where the call stands
    fetch_call,       \* its arguments, and the archive the server holds for them
    fetch_locals,     \* its local variables
    scratch,          \* the files in TEMP_DIR
    events,           \* what the call has done to the archive and to TEMP_DIR so far
    remove_failed,    \* whether an os.remove of the call has raised
    entry,            \* the orchestrator that runs
    opc,              \* where the orchestrator stands
    server_docs,      \* what the server answers for each folder's Docs/ page
    run_locals,       \* the orchestrator's local variables
    docs_response,    \* the answer find_excel_in_docs last worked on
    excel_out,        \* what find_excel_in_docs last did
    run_log,          \* the stages the orchestrator has called, in order
    progress_calls,   \* the values passed to the progress sink, in order
    report,           \* the rows of the report file, None before it is written
    results_file,     \* results.json: whether it exists, and the list in it
    progress_file,    \* what progress.json holds: <<>> when missing or empty
    app_threads,      \* the background threads the application has started
    polls             \* the values GET /progress has returned, in order

folderVars == <<index_response, folders_out>>
filterVars == <<excel_file, spec_number, crs_out>>
matcherVars == <<docx_file, clauses_db, match_out>>
fetchVars == <<fpc, fetch_call, fetch_locals, scratch, events, remove_failed>>
vars == <<index_response, folders_out, excel_file, spec_number, crs_out,
          docx_file, clauses_db, match_out,
          fpc, fetch_call, fetch_locals, scratch, events, remove_failed,
          entry, opc, server_docs, run_locals, docs_response, excel_out,
          run_log, progress_calls, report,
          results_file, progress_file, app_threads, polls>>
appVars == <<results_file, progress_file, app_threads, polls>>
runVars == <<entry, opc, server_docs, run_locals, docs_response, excel_out,
             run_log, progress_calls, report>>

(***************************************************************************)
(* Values shared by the stages.                                            *)
(***************************************************************************)
None == [kind |-> "None"]
NotCalled == [kind |-> "not_called"]
Return(v) == [kind |-> "return", value |-> v]
Raise(e) == [kind |-> "raise", exc |-> e]

\* requests.get + raise_for_status: "ok", or one of the transport errors,
\* each of which is a requests.exceptions.RequestException.
TransportErrors == {"unreachable", "timeout", "http_error"}
TransportOutcomes == {"ok"} \cup TransportErrors

\* A plausible slip: a handler for connection and HTTP errors only.
IsRequestExceptionNoTimeout(o) == o \in {"unreachable", "http_error"}

\* except requests.exceptions.RequestException: ConnectionError, Timeout and
\* HTTPError are all RequestExceptions.
IsRequestException(o) == o \in TransportErrors

Last(s) == s[Len(s)]
Front(s) == SubSeq(s, 1, Len(s) - 1)

RECURSIVE Reverse(_)
Reverse(s) == IF s = <<>> THEN <<>> ELSE Append(Reverse(Tail(s)), Head(s))

\* The sequences over S of length 0..n.
SeqUpTo(S, n) == UNION {[1..k -> S] : k \in 0..n}

(***************************************************************************)
(* Folder Discoverer: get_sorted_meeting_folders.                          *)
(***************************************************************************)
MaxRows == 3

\* Text is a sequence of atoms: a word, a punctuation mark, or one whitespace
\* character (" " the space, "\n" a line break inside a cell or a paragraph).
IsSpaceTok(c) == c \in {" ", "\n"}

RECURSIVE LStrip(_)
LStrip(s) == IF s # <<>> /\ IsSpaceTok(Head(s)) THEN LStrip(Tail(s)) ELSE s

RECURSIVE RStrip(_)
RStrip(s) == IF s # <<>> /\ IsSpaceTok(Last(s)) THEN RStrip(Front(s)) ELSE s

\* str.strip()
Strip(s) == RStrip(LStrip(s))

\* link_text.startswith('TSGR_')
StartsWithTSGR(text) == text # <<>> /\ Head(text) = "TSGR_"

\* A date cell's text is <<Y, M, D, h, m>> when it has the shape
\* "Y/M/D h:m" (the fields may be out of range), and <<>> when it has not.
DaysIn(y, m) ==
    IF m \in {4, 6, 9, 11} THEN 30
    ELSE IF m = 2 THEN (IF y % 4 = 0 /\ (y % 100 # 0 \/ y % 400 = 0) THEN 29 ELSE 28)
    ELSE 31

\* datetime.strptime(date_str, "%Y/%m/%d %H:%M") raises ValueError or
\* returns the datetime, here the tuple of its fields.
StrptimeOk(d) ==
    /\ Len(d) = 5
    /\ d[1] \in 1..9999
    /\ d[2] \in 1..12
    /\ d[3] \in 1..DaysIn(d[1], d[2])
    /\ d[4] \in 0..23
    /\ d[5] \in 0..59

\* datetime's order: lexicographic on (year, month, day, hour, minute).
RECURSIVE LexLess(_, _)
LexLess(a, b) ==
    IF a = <<>> \/ b = <<>> THEN FALSE
    ELSE IF Head(a) # Head(b) THEN Head(a) < Head(b)
    ELSE LexLess(Tail(a), Tail(b))

\* list.sort(key=..., reverse=True): CPython reverses the list, sorts it
\* ascending and stably, and reverses it again, so that equal keys keep their
\* original order. The stable ascending sort is an insertion from the left
\* that puts an element after every element whose key is not greater.
RECURSIVE InsertAsc(_, _)
InsertAsc(sorted, x) ==
    IF sorted = <<>> THEN <<x>>
    ELSE IF LexLess(x[1], Head(sorted)[1]) THEN <<x>> \o sorted
    ELSE <<Head(sorted)>> \o InsertAsc(Tail(sorted), x)

RECURSIVE StableSortAsc(_)
StableSortAsc(s) ==
    IF s = <<>> THEN <<>> ELSE InsertAsc(StableSortAsc(Front(s)), Last(s))

\* A plausible slip: sort ascending and reverse the result, which turns the
\* order of equal timestamps around.
SortByDateDescUnstable(s) == Reverse(StableSortAsc(s))

SortByDateDesc(s) == Reverse(StableSortAsc(Reverse(s)))

\* A row of the index table as the code reads it:
\*   link      row.find('a') finds a link
\*   text      link.text
\*   class     link.get('class') is truthy
\*   href      link.get('href'), "" when absent
\*   inTd      the link has a 'td' ancestor (find_parent('td') is not None)
\*   dateTd    that td has a following 'td' sibling
\*   date      the text of that sibling
Row(link, text, class, href, inTd, dateTd, date) ==
    [link |-> link, text |-> text, class |-> class, href |-> href,
     inTd |-> inTd, dateTd |-> dateTd, date |-> date]

DateAug == <<2025, 8, 10, 22, 7>>
DateSep == <<2025, 9, 1, 0, 0>>
DateBadMonth == <<2025, 13, 1, 0, 0>>
DateBadDay == <<2025, 2, 30, 10, 0>>
DateGarbled == <<>>

RowPalette ==
    { Row(TRUE, <<"TSGR_", "a">>, FALSE, "TSGR_a/", TRUE, TRUE, DateAug),
      Row(TRUE, <<" ", "TSGR_", "b">>, FALSE, "TSGR_b/", TRUE, TRUE, DateAug),
      Row(TRUE, <<"TSGR_", "c">>, FALSE, "TSGR_c/", TRUE, TRUE, DateSep),
      Row(TRUE, <<"TSGR_", "d">>, FALSE, "TSGR_d/", TRUE, TRUE, DateBadMonth),
      Row(TRUE, <<"TSGR_", "e">>, FALSE, "TSGR_e/", TRUE, TRUE, DateGarbled),
      Row(TRUE, <<"TSGR_", "f">>, FALSE, "TSGR_f/", TRUE, TRUE, DateBadDay),
      Row(TRUE, <<"TSGR_", "g">>, TRUE, "TSGR_g/", TRUE, TRUE, DateSep),
      Row(TRUE, <<"Parent">>, FALSE, "../", TRUE, TRUE, DateSep),
      Row(TRUE, <<"TSGR_", "h">>, FALSE, "", TRUE, TRUE, DateSep),
      Row(TRUE, <<"TSGR_", "i">>, FALSE, "TSGR_i/", TRUE, FALSE, DateGarbled),
      Row(TRUE, <<"TSGR_", "j">>, FALSE, "TSGR_j/", FALSE, FALSE, DateGarbled),
      Row(FALSE, <<>>, FALSE, "", FALSE, FALSE, DateGarbled) }

\* The response to the index request: the transport outcome and, when it is
\* "ok", the parsed page: whether it has a tbody, and the tbody's rows.
IndexResponse(outcome, tbody, rows) ==
    [outcome |-> outcome, tbody |-> tbody, rows |-> rows]

IndexResponses ==
    {IndexResponse(o, FALSE, <<>>) : o \in TransportErrors}
    \cup {IndexResponse("ok", FALSE, <<>>)}
    \cup {IndexResponse("ok", TRUE, rows) : rows \in SeqUpTo(RowPalette, MaxRows)}

\* date_td.text.strip(): the date text of the model carries its fields only,
\* the surrounding whitespace is already gone.
DateStr(row) == row.date

\* The guards of lines 39-53: the row is a folder row with a link target and a
\* date cell.
RowQualifies(row) ==
    /\ row.link
    /\ StartsWithTSGR(Strip(row.text))
    /\ ~row.class
    /\ row.href # ""
    /\ row.dateTd

\* The loop body of lines 37-62 on one row: the list after the row, or the
\* exception that leaves the loop.
ProcessRow(acc, row) ==
    IF ~row.link THEN Return(acc)
    ELSE IF ~(StartsWithTSGR(Strip(row.text)) /\ ~row.class) THEN Return(acc)
    ELSE IF row.href = "" THEN Return(acc)
    ELSE IF ~row.inTd THEN Raise("AttributeError")
    ELSE IF ~row.dateTd THEN Return(acc)
    ELSE IF StrptimeOk(DateStr(row))
         THEN Return(Append(acc, <<DateStr(row), row.href>>))
    ELSE Return(acc)

RECURSIVE ProcessRows(_, _)
ProcessRows(acc, rows) ==
    IF rows = <<>> THEN Return(acc)
    ELSE LET r == ProcessRow(acc, Head(rows))
         IN  IF r.kind = "raise" THEN r ELSE ProcessRows(r.value, Tail(rows))

ExtractHrefs(s) == [k \in 1..Len(s) |-> s[k][2]]

get_sorted_meeting_folders(resp) ==
    IF resp.outcome # "ok"
    THEN (IF IsRequestException(resp.outcome) THEN Return(<<>>) ELSE Raise(resp.outcome))
    ELSE IF ~resp.tbody THEN Raise("AttributeError")
    ELSE LET r == ProcessRows(<<>>, resp.rows)
         IN  IF r.kind = "raise" THEN r
             ELSE Return(ExtractHrefs(SortByDateDesc(r.value)))

(***************************************************************************)
(* Manifest Filter: filter_approved_crs.                                   *)
(***************************************************************************)
MaxCellLen == 4
MaxSheetRows == 2

\* A cell as pandas reads it: text (a non-empty atom sequence; read_excel
\* turns an empty cell into NaN), NaN, or a number.
StrCell(v) == [t |-> "str", v |-> v]
NaN == [t |-> "nan"]
NumCell(n) == [t |-> "num", n |-> n]

\* str(x) and Series.astype(str)
Str(cell) ==
    IF cell.t = "str" THEN cell.v
    ELSE IF cell.t = "nan" THEN <<"nan">>
    ELSE <<ToString(cell.n)>>

\* str.lower() on one atom
LowerAtom(a) ==
    CASE a \in {"Approved", "APPROVED"} -> "approved"
      [] a \in {"Rejected"} -> "rejected"
      [] a \in {"Clauses", "CLAUSES"} -> "clauses"
      [] a \in {"Affected", "AFFECTED"} -> "affected"
      [] a \in {"Summary", "SUMMARY"} -> "summary"
      [] a \in {"Change", "CHANGE"} -> "change"
      [] a \in {"OF"} -> "of"
      [] a \in {"THE"} -> "the"
      [] a \in {"First"} -> "first"
      [] a \in {"Second"} -> "second"
      [] a \in {"CONSEQUENCES"} -> "consequences"
      [] a \in {"IF"} -> "if"
      [] a \in {"NOT"} -> "not"
      [] a \in {"Title"} -> "title"
      [] a \in {"Reason"} -> "reason"
      [] a \in {"A", "X"} -> IF a = "A" THEN "a" ELSE "x"
      [] a \in {"R4-1"} -> "r4-1"
      [] a \in {"R4-2"} -> "r4-2"
      [] a \in {".DOCX"} -> ".docx"
      [] a \in {".ZIP"} -> ".zip"
      [] OTHER -> a

Lower(s) == [k \in 1..Len(s) |-> LowerAtom(s[k])]

\* str.replace(' ', ''): the space goes, any other whitespace stays.
RECURSIVE RemoveSpaces(_)
RemoveSpaces(s) ==
    IF s = <<>> THEN <<>>
    ELSE IF Head(s) = " " THEN RemoveSpaces(Tail(s))
    ELSE <<Head(s)>> \o RemoveSpaces(Tail(s))

\* str.split(','): the pieces between the commas, empty ones included.
RECURSIVE SplitComma(_, _)
SplitComma(s, piece) ==
    IF s = <<>> THEN <<piece>>
    ELSE IF Head(s) = "," THEN <<piece>> \o SplitComma(Tail(s), <<>>)
    ELSE SplitComma(Tail(s), Append(piece, Head(s)))

\* Lines 165-167 with str.strip() left out of both places.
RECURSIVE RowPairsUnstripped(_, _)
RowPairsUnstripped(rp_number, pieces) ==
    IF pieces = <<>> THEN <<>>
    ELSE LET r4_doc == Head(pieces)
             rest == RowPairsUnstripped(rp_number, Tail(pieces))
         IN  IF r4_doc # <<>> THEN << <<Str(rp_number), r4_doc>> >> \o rest
             ELSE rest

\* Lines 165-167: one pair per piece that is not empty once stripped.
RECURSIVE RowPairs(_, _)
RowPairs(rp_number, pieces) ==
    IF pieces = <<>> THEN <<>>
    ELSE LET r4_doc == Head(pieces)
             rest == RowPairs(rp_number, Tail(pieces))
         IN  IF Strip(r4_doc) # <<>>
             THEN << <<Str(rp_number), Strip(r4_doc)>> >> \o rest
             ELSE rest

\* Lines 146-153: the row passes both filters.
RowPasses(row, spec) ==
    /\ Lower(Strip(Str(row.status))) = <<"approved">>
    /\ Strip(Str(row.spec)) = spec

\* Lines 161-167 on the rows of the sheet, in sheet order.
RECURSIVE ExtractPairs(_, _)
ExtractPairs(rows, spec) ==
    IF rows = <<>> THEN <<>>
    ELSE LET row == Head(rows)
             rest == ExtractPairs(Tail(rows), spec)
         IN  IF RowPasses(row, spec) /\ row.r4.t = "str"
             THEN RowPairs(row.rp, SplitComma(RemoveSpaces(row.r4.v), <<>>)) \o rest
             ELSE rest

\* The spreadsheet file:
\*   opens     pd.ExcelFile(excel_path) succeeds (else it raises)
\*   sheets    xls.sheet_names
\*   reads     pd.read_excel of the sheet succeeds (else it raises)
\*   columns   df.columns
\*   rows      the sheet's rows: the four cells the code reads
RequiredCols == {"CR Pack TDoc", "WG Tdoc", "CR Individual TSG decision", "Spec"}

ExcelFile(opens, sheets, reads, columns, rows) ==
    [kind |-> "xlsx", opens |-> opens, sheets |-> sheets, reads |-> reads,
     columns |-> columns, rows |-> rows]

SheetRow(rp, r4, status, spec) == [rp |-> rp, r4 |-> r4, status |-> status, spec |-> spec]

\* Lines 125-172, the body of the try.
FilterBody(xls, spec) ==
    IF ~xls.opens THEN Raise("Exception")
    ELSE IF "CR_Packs_List" \notin xls.sheets THEN Return(<<>>)
    ELSE IF ~xls.reads THEN Raise("Exception")
    ELSE IF ~(RequiredCols \subseteq xls.columns) THEN Return(<<>>)
    ELSE Return(ExtractPairs(xls.rows, spec))

\* A plausible slip: the try without its `except Exception`.
filter_approved_crs_uncaught(xls, spec) == FilterBody(xls, spec)

\* Lines 124-178: any exception of the body becomes the empty list.
filter_approved_crs(xls, spec) ==
    LET r == FilterBody(xls, spec)
    IN  IF r.kind = "raise" THEN Return(<<>>) ELSE r

SPEC_NUMBER == <<"38.101-1">>

R4Atoms == {"R4-1", "R4-2", " ", ",", "\n"}

\* The cell of the spec's example: "R4-111, R4-222,R4-333".
ExampleCell == <<"R4-111", ",", " ", "R4-222", ",", "R4-333">>

R4Cells ==
    {StrCell(v) : v \in (SeqUpTo(R4Atoms, MaxCellLen) \ {<<>>}) \cup {ExampleCell}}
    \cup {NaN, NumCell(7)}

StatusCells ==
    {StrCell(<<"approved">>), StrCell(<<" ", "APPROVED", "\n">>),
     StrCell(<<"Rejected">>), StrCell(<<"approved", " ", "x">>), NaN}

SpecCells ==
    {StrCell(<<"38.101-1">>), StrCell(<<" ", "38.101-1", " ">>),
     StrCell(<<"38.101-2">>), NaN}

RpCells == {StrCell(<<"RP-5">>), NumCell(5), NaN}

\* Rows of every kind for the sheets of several rows.
SheetRowPalette ==
    {SheetRow(StrCell(<<"RP-5">>), StrCell(<<"R4-1", ",", " ", "R4-2">>), st, sp) :
        st \in StatusCells, sp \in {StrCell(<<"38.101-1">>), StrCell(<<"38.101-2">>)}}
    \cup {SheetRow(StrCell(<<"RP-6">>), r4, StrCell(<<"approved">>), StrCell(<<"38.101-1">>)) :
        r4 \in {StrCell(<<"R4-2", ",", "\n">>), NaN}}

GoodSheet(rows) == ExcelFile(TRUE, {"CR_Packs_List"}, TRUE, RequiredCols, rows)

ExcelFiles ==
    \* one row, every document-id cell
    {GoodSheet(<<SheetRow(rp, r4, StrCell(<<" ", "APPROVED", "\n">>), StrCell(<<" ", "38.101-1", " ">>))>>) :
        rp \in RpCells, r4 \in R4Cells}
    \* one row, every status and spec cell
    \cup {GoodSheet(<<SheetRow(StrCell(<<"RP-5">>), StrCell(ExampleCell), st, sp)>>) :
        st \in StatusCells, sp \in SpecCells}
    \* several rows
    \cup {GoodSheet(rows) : rows \in SeqUpTo(SheetRowPalette, MaxSheetRows)}
    \* the failures
    \cup {ExcelFile(FALSE, {}, FALSE, {}, <<>>)}
    \cup {ExcelFile(TRUE, {"Sheet1"}, TRUE, RequiredCols, <<>>)}
    \cup {ExcelFile(TRUE, {"CR_Packs_List"}, FALSE, {}, <<>>)}
    \cup {ExcelFile(TRUE, {"CR_Packs_List", "Sheet1"}, TRUE, RequiredCols \ {c},
                    <<SheetRow(StrCell(<<"RP-5">>), StrCell(<<"R4-1">>),
                               StrCell(<<"approved">>), StrCell(<<"38.101-1">>))>>) :
            c \in RequiredCols}

(***************************************************************************)
(* Clause Matcher: search_docx_for_clauses.                                *)
(***************************************************************************)
MaxBlocks == 7
MaxShortBlocks == 2
MaxSummaryBlocks == 4

\* `p in s` for strings: p is a contiguous part of s.
ContainsSeq(s, p) ==
    \E i \in 1..(Len(s) - Len(p) + 1) : SubSeq(s, i, i + Len(p) - 1) = p

\* 'clauses affected' in text.lower()
HasClausesAffected(text) == ContainsSeq(Lower(text), <<"clauses", " ", "affected">>)

\* Lines 334-340: the block and up to the next 5 blocks, joined by a space.
RECURSIVE SearchAreaFrom(_, _, _)
SearchAreaFrom(all_paragraphs, i, j) ==
    IF j > 5 \/ i + j > Len(all_paragraphs) THEN <<>>
    ELSE <<" ">> \o all_paragraphs[i + j] \o SearchAreaFrom(all_paragraphs, i, j + 1)

\* A plausible slip: the block alone, without the blocks after it.
SearchAreaBlockOnly(all_paragraphs, i) == all_paragraphs[i]

SearchArea(all_paragraphs, i) ==
    all_paragraphs[i] \o SearchAreaFrom(all_paragraphs, i, 1)

\* The character classes of r'[\d\w\.]+\.[\d\w]+': \w matches a word atom
\* (letters, digits, underscore), \. the dot.
IsDot(a) == a = "."
IsWordAtom(a) == a \notin {".", ",", " ", "\n", ":", ";", "-", "(", ")"}
InClass(a) == IsDot(a) \/ IsWordAtom(a)

\* The longest prefix of s inside the class [\d\w\.].
RECURSIVE RunPrefix(_)
RunPrefix(s) ==
    IF s = <<>> \/ ~InClass(Head(s)) THEN <<>>
    ELSE <<Head(s)>> \o RunPrefix(Tail(s))

\* The match of the pattern that starts at the head of the run r, or <<>>:
\* [\d\w\.]+ takes the most atoms k it can such that a dot and a word atom
\* follow, and [\d\w]+ then takes every word atom after that dot.
RECURSIVE WordPrefixLen(_)
WordPrefixLen(s) ==
    IF s = <<>> \/ ~IsWordAtom(Head(s)) THEN 0 ELSE 1 + WordPrefixLen(Tail(s))

MatchAtHead(r) ==
    LET ks == {k \in 1..(Len(r) - 2) : IsDot(r[k + 1]) /\ IsWordAtom(r[k + 2])}
    IN  IF ks = {} THEN <<>>
        ELSE LET k == CHOOSE x \in ks : \A y \in ks : y <= x
             IN  SubSeq(r, 1, k + 1 + WordPrefixLen(SubSeq(r, k + 2, Len(r))))

\* re.findall: the matches from left to right, none overlapping another.
RECURSIVE FindAll(_)
FindAll(s) ==
    IF s = <<>> THEN <<>>
    ELSE LET m == MatchAtHead(RunPrefix(s))
         IN  IF m = <<>> THEN FindAll(Tail(s))
             ELSE <<m>> \o FindAll(SubSeq(s, Len(m) + 1, Len(s)))

\* clause.strip('., ')
IsStripChar(a) == a \in {".", ",", " "}

RECURSIVE LStripClause(_)
LStripClause(s) ==
    IF s # <<>> /\ IsStripChar(Head(s)) THEN LStripClause(Tail(s)) ELSE s

RECURSIVE RStripClause(_)
RStripClause(s) ==
    IF s # <<>> /\ IsStripChar(Last(s)) THEN RStripClause(Front(s)) ELSE s

\* A plausible slip: the candidate is not cleaned before the lookup.
CleanClauseNoStrip(clause) == clause

CleanClause(clause) == RStripClause(LStripClause(clause))

\* Lines 347-353 on the candidates of one search area.
RECURSIVE AddClauses(_, _, _, _)
AddClauses(potential_clauses, found_clauses, db, i) ==
    IF found_clauses = <<>> THEN potential_clauses
    ELSE LET cleaned_clause == CleanClause(Head(found_clauses))
             seen == {potential_clauses[k][1] : k \in 1..Len(potential_clauses)}
             next == IF cleaned_clause \in db /\ cleaned_clause \notin seen
                     THEN Append(potential_clauses, <<cleaned_clause, i>>)
                     ELSE potential_clauses
         IN  AddClauses(next, Tail(found_clauses), db, i)

\* Lines 323-353: the loop over the blocks; the state it leaves is
\* potential_clauses and clauses_affected_idx (0 for Python's -1, the model's
\* blocks being numbered from 1).
RECURSIVE ScanClauses(_, _, _, _)
ScanClauses(all_paragraphs, db, i, st) ==
    IF i > Len(all_paragraphs) THEN st
    ELSE IF HasClausesAffected(all_paragraphs[i])
    THEN ScanClauses(all_paragraphs, db, i + 1,
            [clauses_affected_idx |-> i,
             potential_clauses |->
                AddClauses(st.potential_clauses,
                           FindAll(SearchArea(all_paragraphs, i)), db, i)])
    ELSE ScanClauses(all_paragraphs, db, i + 1, st)

\* len() of one atom in characters; a word the table does not name counts
\* its letters below, every other atom is one character.
AtomLen(a) ==
    CASE a \in {"LONGUPPER"} -> 100
      [] a \in {"longword"} -> 50
      [] a \in {"CONSEQUENCES"} -> 12
      [] a \in {"Clauses", "CLAUSES", "clauses", "Summary", "SUMMARY", "summary",
                "ignored"} -> 7
      [] a \in {"Affected", "AFFECTED", "affected", "APPROVED"} -> 8
      [] a \in {"Change", "CHANGE", "change", "Second", "Reason"} -> 6
      [] a \in {"First", "Title", "title"} -> 5
      [] a \in {"line", "text"} -> 4
      [] a \in {"the", "THE", "NOT", "foo", "for"} -> 3
      [] a \in {"of", "OF", "IF"} -> 2
      [] OTHER -> 1

RECURSIVE StrLen(_)
StrLen(s) == IF s = <<>> THEN 0 ELSE AtomLen(Head(s)) + StrLen(Tail(s))

\* The case of an atom's letters.
HasUpperLetters(a) ==
    a \in {"LONGUPPER", "CONSEQUENCES", "CLAUSES", "SUMMARY", "AFFECTED", "APPROVED",
           "CHANGE", "THE", "NOT", "OF", "IF", "A", "X",
           "Clauses", "Summary", "Affected", "Change", "First", "Second", "Title",
           "Reason"}
HasLowerLetters(a) ==
    a \in {"longword", "clauses", "summary", "affected", "change", "ignored", "line",
           "text", "the", "foo", "for", "of", "title", "a", "x",
           "Clauses", "Summary", "Affected", "Change", "First", "Second", "Title",
           "Reason"}

\* str.isupper(): some cased character, and no lower-case one.
IsUpper(s) ==
    /\ \E k \in 1..Len(s) : HasUpperLetters(s[k])
    /\ \A k \in 1..Len(s) : ~HasLowerLetters(s[k])

\* str.endswith(':')
EndsWithColon(s) == s # <<>> /\ Last(s) = ":"

SummaryOfChange == <<"summary", " ", "of", " ", "change">>
SummaryOfTheChange == <<"summary", " ", "of", " ", "the", " ", "change">>

\* Line 364
HasSummaryHeader(text) ==
    \/ ContainsSeq(Lower(text), SummaryOfChange)
    \/ ContainsSeq(Lower(text), SummaryOfTheChange)

\* Line 377: the header line repeated.
RepeatedHeaders ==
    {SummaryOfChange \o <<":">>, SummaryOfTheChange \o <<":">>,
     SummaryOfChange, SummaryOfTheChange}

\* Line 387: of the phrases listed there, the ones the model's atoms spell.
BenignUpper == {SummaryOfChange, SummaryOfTheChange}

\* Line 393: a keyword is part of the lower-cased text; of the keywords
\* listed there, 'title' and 'clause' are part of atoms of the model.
HasKeyword(lowered) ==
    \E k \in 1..Len(lowered) : lowered[k] \in {"title", "clauses"}

\* Line 387
IsSectionHeader(para_text) ==
    /\ IsUpper(para_text)
    /\ StrLen(para_text) < 100
    /\ Lower(para_text) \notin BenignUpper

\* A plausible slip: lines 391-392 without the keywords of line 393.
EndsWithColonHeaderNoKeywords(para_text) ==
    /\ EndsWithColon(para_text)
    /\ StrLen(para_text) < 50
    /\ Lower(para_text) \notin BenignUpper

\* Lines 391-393
EndsWithColonHeader(para_text) ==
    /\ EndsWithColon(para_text)
    /\ StrLen(para_text) < 50
    /\ Lower(para_text) \notin BenignUpper
    /\ ~HasKeyword(Lower(para_text))

\* "\n".join(lines)
RECURSIVE JoinLines(_)
JoinLines(lines) ==
    IF lines = <<>> THEN <<>>
    ELSE IF Len(lines) = 1 THEN Head(lines)
    ELSE Head(lines) \o <<"\n">> \o JoinLines(Tail(lines))

\* Lines 372-405: the loop over blocks j..last after the summary header.
RECURSIVE CollectSummary(_, _, _, _)
CollectSummary(all_paragraphs, j, last, summary_lines) ==
    IF j > last THEN summary_lines
    ELSE LET para_text == Strip(all_paragraphs[j])
         IN  IF Lower(para_text) \in RepeatedHeaders
             THEN CollectSummary(all_paragraphs, j + 1, last, summary_lines)
             ELSE IF para_text = <<>>
             THEN CollectSummary(all_paragraphs, j + 1, last, summary_lines)
             ELSE IF IsSectionHeader(para_text) \/ EndsWithColonHeader(para_text)
             THEN summary_lines
             ELSE IF summary_lines = <<>> \/ Last(summary_lines) # para_text
             THEN CollectSummary(all_paragraphs, j + 1, last,
                                 Append(summary_lines, para_text))
             ELSE CollectSummary(all_paragraphs, j + 1, last, summary_lines)

Min(a, b) == IF a < b THEN a ELSE b

\* Lines 362-409: the first block with a summary header, 0 when there is none.
FirstSummaryHeader(all_paragraphs) ==
    LET hs == {i \in 1..Len(all_paragraphs) : HasSummaryHeader(all_paragraphs[i])}
    IN  IF hs = {} THEN 0 ELSE CHOOSE i \in hs : \A h \in hs : i <= h

\* Lines 368-407: the 10 blocks after the header at block i.
SummaryAfterHeader(all_paragraphs, i) ==
    Strip(JoinLines(CollectSummary(all_paragraphs, i + 1,
                                   Min(Len(all_paragraphs), i + 10), <<>>)))

\* Lines 415-426: the blocks after clauses_affected_idx, up to 14 of them.
RECURSIVE CollectFallback(_, _, _, _)
CollectFallback(all_paragraphs, i, last, summary_of_change) ==
    IF i > last THEN summary_of_change
    ELSE LET para_text == Strip(all_paragraphs[i])
         IN  IF para_text # <<>> /\ ~HasClausesAffected(para_text)
             THEN IF ~((IsUpper(para_text) /\ StrLen(para_text) < 100)
                       \/ EndsWithColon(para_text))
                  THEN CollectFallback(all_paragraphs, i + 1, last,
                          (IF summary_of_change # <<>>
                           THEN summary_of_change \o <<"\n">>
                           ELSE <<>>) \o para_text)
                  ELSE summary_of_change
             ELSE CollectFallback(all_paragraphs, i + 1, last, summary_of_change)

\* Lines 356-426
SummaryFor(all_paragraphs, clauses_affected_idx) ==
    LET h == FirstSummaryHeader(all_paragraphs)
    IN  IF h # 0 THEN SummaryAfterHeader(all_paragraphs, h)
        ELSE IF clauses_affected_idx # 0
        THEN CollectFallback(all_paragraphs, clauses_affected_idx + 1,
                             Min(Len(all_paragraphs), clauses_affected_idx + 14), <<>>)
        ELSE <<>>

\* The document file: whether docx.Document(docx_path) opens it (else it
\* raises), and all_paragraphs: the paragraphs' texts, then the table cells'.
DocxFile(opens, blocks) == [kind |-> "docx", opens |-> opens, blocks |-> blocks]

\* Lines 305-432, the body of the try.
SearchBody(doc, db) ==
    IF ~doc.opens THEN Raise("Exception")
    ELSE LET st == ScanClauses(doc.blocks, db, 1,
                       [clauses_affected_idx |-> 0, potential_clauses |-> <<>>])
         IN  IF st.potential_clauses # <<>>
             THEN Return([matching_clause |-> st.potential_clauses[1][1],
                          summary_of_change |->
                              SummaryFor(doc.blocks, st.clauses_affected_idx)])
             ELSE Return(None)

\* Lines 298-438: any exception of the body becomes None.
search_docx_for_clauses(doc, db) ==
    LET r == SearchBody(doc, db)
    IN  IF r.kind = "raise" THEN Return(None) ELSE r

\* The clause sets of the model: clauses of CLAUSES_DATABASE (line 15), each
\* of which has a dot, and one clause no document of the model names.
Clause64 == <<"6", ".", "4">>
Clause642 == <<"6", ".", "4", ".", "2">>
Clause51 == <<"5", ".", "1">>
Clause43 == <<"4", ".", "3">>

ClauseSets == {{Clause64}, {Clause51, Clause642}, {Clause43}}

BlockClausesAffected == <<"clauses", " ", "affected">>
BlockFoo == <<"foo">>

\* The blocks of the long documents: enough of them to leave a window.
LongPalette == {BlockFoo, BlockClausesAffected, Clause64}

BlockPalette ==
    { <<"Clauses", " ", "Affected", ":", " ", "6", ".", "4", ",", " ", "5", ".", "1">>,
      <<"CLAUSES", " ", "AFFECTED">>,
      <<".", "6", ".", "4", ".">>,
      <<"x", "6", ".", "4">>,
      Clause642,
      <<"5", ".", "1", ",">>,
      <<>>,
      BlockFoo,
      <<"Summary", " ", "of", " ", "change", ":">>,
      <<"First", " ", "line", ".">>,
      <<"CONSEQUENCES", ":">> }

DocxFiles ==
    {DocxFile(TRUE, bs) : bs \in SeqUpTo(LongPalette, MaxBlocks)}
    \cup {DocxFile(TRUE, bs) : bs \in SeqUpTo(BlockPalette, MaxShortBlocks)}
    \cup {DocxFile(FALSE, <<>>)}

\* The documents with a summary section: a block that names clause 6.4, the
\* summary header, and the blocks after it.
BlockClauses64 == <<"Clauses", " ", "Affected", ":", " ", "6", ".", "4">>
BlockSummaryHeader == <<"Summary", " ", "of", " ", "change", ":">>
BlockFirstLine == <<"First", " ", "line", ".">>
BlockSecondLine == <<"Second", " ", "line", ".">>
BlockConsequences ==
    <<"CONSEQUENCES", " ", "IF", " ", "NOT", " ", "APPROVED", ":">>

SummaryPalette ==
    { BlockFirstLine,
      <<" ">> \o BlockSecondLine \o <<" ">>,
      <<" ">>,
      BlockConsequences,
      <<"Title", ":">>,
      <<"longword", ":">>,
      BlockSummaryHeader,
      <<"ignored">> }

\* Eleven blocks after the header: one more than line 372 looks at.
ElevenBlocks ==
    [k \in 1..11 |-> IF k = 11 THEN <<"ignored">>
                     ELSE IF k % 2 = 1 THEN BlockFirstLine ELSE BlockSecondLine]

SummaryDocxFiles ==
    {DocxFile(TRUE, <<BlockClauses64, BlockSummaryHeader>> \o bs) :
        bs \in SeqUpTo(SummaryPalette, MaxSummaryBlocks)}
    \cup {DocxFile(TRUE, <<BlockClauses64, BlockSummaryHeader>> \o ElevenBlocks)}

(***************************************************************************)
(* Document Fetcher: process_rp_archive.                                   *)
(***************************************************************************)
MaxEntries == 2

\* An entry of a zip archive:
\*   name      its name in namelist()
\*   crc_ok    whether its data matches its CRC-32; ZipFile.extract writes the
\*             target file and raises BadZipFile at the end of the data when
\*             it does not, so the file stays and no path is returned
\*   content   what the entry holds: a document, an archive, or neither
Entry(name, crc_ok, content) == [name |-> name, crc_ok |-> crc_ok, content |-> content]

\* An archive file: whether zipfile.ZipFile opens it (else BadZipFile), and
\* its entries in namelist() order.
ZipArchive(valid, entries) == [kind |-> "zip", valid |-> valid, entries |-> entries]

\* What the server answers for zip_url: the transport outcome, the length of
\* the body in bytes (0, or 1 for any other length), and the body.
ZipResponse(outcome, size, zip) == [outcome |-> outcome, size |-> size, zip |-> zip]

\* Lines 219 and 242: r4_doc_name.lower() in name.lower() and
\* name.lower().endswith('.docx')
NameMatches(r4_doc_name, name) ==
    /\ ContainsSeq(Lower(name), Lower(r4_doc_name))
    /\ name # <<>> /\ Last(Lower(name)) = ".docx"

\* Line 229: name.lower().endswith('.zip')
IsZipName(name) == name # <<>> /\ Last(Lower(name)) = ".zip"

\* The first entry, in namelist() order, that matches; 0 when none does.
FirstMatch(entries, r4_doc_name) ==
    LET ms == {k \in 1..Len(entries) : NameMatches(r4_doc_name, entries[k].name)}
    IN  IF ms = {} THEN 0 ELSE CHOOSE k \in ms : \A m \in ms : k <= m

\* A plausible slip: the last matching entry instead of the first.
LastMatch(entries, r4_doc_name) ==
    LET ms == {k \in 1..Len(entries) : NameMatches(r4_doc_name, entries[k].name)}
    IN  IF ms = {} THEN 0 ELSE CHOOSE k \in ms : \A m \in ms : m <= k

\* Line 229: the entries that are archives, in namelist() order.
ZipFilesInZip(entries) ==
    SelectSeq([k \in 1..Len(entries) |-> k], LAMBDA k : IsZipName(entries[k].name))

\* Line 189: os.path.join(TEMP_DIR, rp_number + '.zip')
ZipLocalPath(rp_number) == rp_number.v \o <<".zip">>

\* Line 184: not rp_number or not isinstance(rp_number, str)
InvalidRpNumber(rp_number) == rp_number.t # "str" \/ rp_number.v = <<>>

FetchCall(rp_number, r4_doc_name, db, response) ==
    [rp_number |-> rp_number, r4_doc_name |-> r4_doc_name, clauses_db |-> db,
     response |-> response]

NoFetchCall == [kind |-> "None"]

\* Lines 190-191, and the loop variables of lines 229-235.
FetchLocals0 ==
    [extracted_docx_path |-> None, result |-> None, zip_idx |-> 0,
     docx_found |-> FALSE, extracted_inner_zip_path |-> None]

FetchIdle ==
    /\ fpc = "idle"
    /\ fetch_call = NoFetchCall
    /\ fetch_locals = FetchLocals0
    /\ scratch = {}
    /\ events = <<>>
    /\ remove_failed = FALSE

\* os.remove(path) inside try/except: the file goes, or the removal raises
\* and the file stays.
Removed(files, path, ok) == IF ok THEN files \ {path} ELSE files

\* Lines 184-191
FetchStart ==
    /\ fpc = "start"
    /\ fpc' = IF InvalidRpNumber(fetch_call.rp_number) THEN "returned" ELSE "download"
    /\ fetch_locals' = FetchLocals0
    /\ UNCHANGED <<fetch_call, scratch, events, remove_failed>>

\* Lines 196-202 and the handlers of lines 266-269. An HTTP error status
\* raises before the file is opened; a connection that breaks or times out
\* may do so while the body is being written.
FetchDownload ==
    /\ fpc = "download"
    /\ LET o == fetch_call.response.outcome
           path == ZipLocalPath(fetch_call.rp_number)
       IN  IF o = "ok"
           THEN /\ scratch' = scratch \cup {path}
                /\ events' = Append(events, <<"download", path>>)
                /\ fpc' = "verify"
           ELSE /\ \E partial \in BOOLEAN :
                     scratch' = IF partial /\ o # "http_error"
                                THEN scratch \cup {path} ELSE scratch
                /\ events' = events
                /\ fpc' = "finally"
    /\ UNCHANGED <<fetch_call, fetch_locals, remove_failed>>

\* A plausible slip: the archive is opened without the size check.
FetchVerifyNoSizeCheck ==
    /\ fpc = "verify"
    /\ fpc' = "open"
    /\ UNCHANGED <<fetch_call, fetch_locals, scratch, events, remove_failed>>

\* Lines 206-208
FetchVerify ==
    /\ fpc = "verify"
    /\ fpc' = IF fetch_call.response.size = 0 THEN "finally" ELSE "open"
    /\ UNCHANGED <<fetch_call, fetch_locals, scratch, events, remove_failed>>

\* Line 211 and the handler of lines 270-278
FetchOpen ==
    /\ fpc = "open"
    /\ events' = Append(events, <<"open", ZipLocalPath(fetch_call.rp_number)>>)
    /\ fpc' = IF fetch_call.response.size # 0 /\ fetch_call.response.zip.valid
              THEN "search" ELSE "finally"
    /\ UNCHANGED <<fetch_call, fetch_locals, scratch, remove_failed>>

\* Lines 212-231: the direct match, extracted and searched, or the list of
\* the nested archives.
FetchSearch ==
    /\ fpc = "search"
    /\ LET entries == fetch_call.response.zip.entries
           file_in_zip == FirstMatch(entries, fetch_call.r4_doc_name)
       IN  IF file_in_zip # 0
           THEN LET e == entries[file_in_zip]
                IN  /\ scratch' = scratch \cup {e.name}
                    /\ IF e.crc_ok
                       THEN /\ fetch_locals' =
                                  [fetch_locals EXCEPT
                                      !.extracted_docx_path = e.name,
                                      !.result = search_docx_for_clauses(
                                          e.content, fetch_call.clauses_db).value]
                            /\ events' = events \o << <<"extract", e.name>>,
                                                      <<"search_docx", e.name>> >>
                       ELSE /\ fetch_locals' = fetch_locals
                            /\ events' = Append(events, <<"extract", e.name>>)
                    /\ fpc' = "finally"
           ELSE /\ fetch_locals' = [fetch_locals EXCEPT !.zip_idx = 1]
                /\ fpc' = IF ZipFilesInZip(entries) = <<>> THEN "finally"
                          ELSE "nested_extract"
                /\ UNCHANGED <<scratch, events>>
    /\ UNCHANGED <<fetch_call, remove_failed>>

\* The nested archive the loop of line 233 is at.
ZipFile ==
    LET entries == fetch_call.response.zip.entries
    IN  entries[ZipFilesInZip(entries)[fetch_locals.zip_idx]]

\* Line 235: z.extract(zip_file) stands outside the inner try, so its
\* BadZipFile leaves the loop for the handler of line 270.
FetchNestedExtract ==
    /\ fpc = "nested_extract"
    /\ scratch' = scratch \cup {ZipFile.name}
    /\ events' = Append(events, <<"extract", ZipFile.name>>)
    /\ IF ZipFile.crc_ok
       THEN /\ fetch_locals' = [fetch_locals EXCEPT
                                   !.extracted_inner_zip_path = ZipFile.name]
            /\ fpc' = "nested_open"
       ELSE /\ fetch_locals' = fetch_locals
            /\ fpc' = "finally"
    /\ UNCHANGED <<fetch_call, remove_failed>>

\* Lines 238-249: the inner try; every exception in it is caught and the
\* loop goes on to the cleanup.
FetchNestedOpen ==
    /\ fpc = "nested_open"
    /\ fpc' = "nested_cleanup"
    /\ LET inner_z == ZipFile.content
           opened == Append(events, <<"open", ZipFile.name>>)
       IN  IF inner_z.kind # "zip" \/ ~inner_z.valid
           THEN /\ events' = opened
                /\ UNCHANGED <<fetch_locals, scratch>>
           ELSE LET m == FirstMatch(inner_z.entries, fetch_call.r4_doc_name)
                IN  IF m = 0
                    THEN /\ events' = opened
                         /\ UNCHANGED <<fetch_locals, scratch>>
                    ELSE LET e == inner_z.entries[m]
                         IN  /\ scratch' = scratch \cup {e.name}
                             /\ IF e.crc_ok
                                THEN /\ fetch_locals' =
                                         [fetch_locals EXCEPT
                                            !.extracted_docx_path = e.name,
                                            !.result = search_docx_for_clauses(
                                                e.content, fetch_call.clauses_db).value,
                                            !.docx_found = TRUE]
                                     /\ events' = opened \o << <<"extract", e.name>>,
                                                               <<"search_docx", e.name>> >>
                                ELSE /\ fetch_locals' = fetch_locals
                                     /\ events' = Append(opened, <<"extract", e.name>>)
    /\ UNCHANGED <<fetch_call, remove_failed>>

\* Lines 251-259: the nested archive is removed, and the loop ends on a
\* match or goes on to the next nested archive.
FetchNestedCleanup ==
    /\ fpc = "nested_cleanup"
    /\ LET path == fetch_locals.extracted_inner_zip_path
           n == Len(ZipFilesInZip(fetch_call.response.zip.entries))
       IN  /\ \E ok \in BOOLEAN :
                IF path \in scratch
                THEN /\ scratch' = Removed(scratch, path, ok)
                     /\ remove_failed' = (remove_failed \/ ~ok)
                     /\ events' = IF ok THEN Append(events, <<"remove", path>>)
                                  ELSE events
                ELSE UNCHANGED <<scratch, remove_failed, events>>
           /\ IF fetch_locals.docx_found \/ fetch_locals.zip_idx >= n
              THEN /\ fpc' = "finally"
                   /\ fetch_locals' = fetch_locals
              ELSE /\ fpc' = "nested_extract"
                   /\ fetch_locals' = [fetch_locals EXCEPT !.zip_idx = @ + 1]
    /\ UNCHANGED fetch_call

\* Lines 283-296: the finally block and the return.
FetchFinally ==
    /\ fpc = "finally"
    /\ fpc' = "returned"
    /\ LET docx == fetch_locals.extracted_docx_path
           zip == ZipLocalPath(fetch_call.rp_number)
           hasDocx == docx # None /\ docx \in scratch
       IN  \E ok1, ok2 \in BOOLEAN :
             LET after1 == IF hasDocx THEN Removed(scratch, docx, ok1) ELSE scratch
                 hasZip == zip \in after1
             IN  /\ scratch' = IF hasZip THEN Removed(after1, zip, ok2) ELSE after1
                 /\ remove_failed' = (remove_failed \/ (hasDocx /\ ~ok1)
                                                    \/ (hasZip /\ ~ok2))
                 /\ events' = events
                        \o (IF hasDocx /\ ok1 THEN << <<"remove", docx>> >> ELSE <<>>)
                        \o (IF hasZip /\ ok2 THEN << <<"remove", zip>> >> ELSE <<>>)
    /\ UNCHANGED <<fetch_call, fetch_locals>>

\* The documents and archives of the model.
DocMatch == DocxFile(TRUE, << <<"Clauses", " ", "Affected", ":", " ", "6", ".", "4">> >>)
DocNoMatch == DocxFile(TRUE, <<BlockFoo>>)
DocCorrupt == DocxFile(FALSE, <<>>)

DocMatch51 == DocxFile(TRUE, <<BlockClausesAffected, Clause51>>)

R4Doc1 == <<"R4-1">>

InnerEntryPalette ==
    { Entry(<<"in_", "R4-1", ".docx">>, TRUE, DocMatch),
      Entry(<<"in_", "R4-1", "_bad", ".docx">>, FALSE, DocMatch),
      Entry(<<"in_", "R4-1", "_nm", ".docx">>, TRUE, DocNoMatch),
      Entry(<<"in_", "R4-2", ".docx">>, TRUE, DocMatch) }

EntryPalette ==
    { Entry(<<"CR_", "R4-1", ".docx">>, TRUE, DocMatch),
      Entry(<<"r4-1", ".DOCX">>, TRUE, DocNoMatch),
      Entry(<<"R4-1", "_x", ".docx">>, TRUE, DocCorrupt),
      Entry(<<"CR_", "R4-1", "_bad", ".docx">>, FALSE, DocMatch),
      Entry(<<"R4-2", ".docx">>, TRUE, DocMatch),
      Entry(<<"readme", ".txt">>, TRUE, None),
      Entry(<<"broken", ".zip">>, TRUE, ZipArchive(FALSE, <<>>)),
      Entry(<<"badcrc", ".ZIP">>, FALSE, ZipArchive(TRUE, <<>>)) }
    \cup {Entry(<<"inner", e.name[2], e.name[3], ".zip">>, TRUE, ZipArchive(TRUE, <<e>>)) :
            e \in InnerEntryPalette}
    \cup {Entry(<<"inner", "_two", ".zip">>, TRUE,
                ZipArchive(TRUE, << Entry(<<"in_", "R4-1", "_nm", ".docx">>, TRUE, DocNoMatch),
                                    Entry(<<"in_", "R4-1", ".docx">>, TRUE, DocMatch) >>))}

ZipResponses ==
    {ZipResponse("ok", 1, ZipArchive(TRUE, es)) : es \in SeqUpTo(EntryPalette, MaxEntries)}
    \cup {ZipResponse("ok", 1, ZipArchive(FALSE, <<>>)), ZipResponse("ok", 0, None)}
    \cup {ZipResponse(o, 0, None) : o \in TransportErrors}

FetchCalls ==
    {FetchCall(StrCell(<<"RP-5">>), R4Doc1, {Clause64}, r) : r \in ZipResponses}
    \cup {FetchCall(rp, R4Doc1, {Clause64},
                    ZipResponse("ok", 1, ZipArchive(TRUE, <<>>))) :
            rp \in {StrCell(<<>>), NumCell(5)}}

(***************************************************************************)
(* Manifest Locator: find_excel_in_docs.                                   *)
(***************************************************************************)
\* What the server answers for docs_url: the transport outcome, the hrefs of
\* the page's links in page order, the outcome of the manifest download, and
\* the spreadsheet behind the first .xlsx link.
DocsResponse(outcome, links, download, file) ==
    [outcome |-> outcome, links |-> links, download |-> download, file |-> file]

\* Lines 88-92: the first href that ends with '.xlsx', <<>> when none does.
ExcelLink(links) ==
    LET xs == {k \in 1..Len(links) : links[k] # <<>> /\ Last(links[k]) = ".xlsx"}
    IN  IF xs = {} THEN <<>> ELSE links[CHOOSE k \in xs : \A m \in xs : k <= m]

\* Lines 78-116: the local path of the downloaded manifest, or None.
find_excel_in_docs(resp) ==
    IF resp.outcome # "ok"
    THEN (IF IsRequestException(resp.outcome) THEN Return(None) ELSE Raise(resp.outcome))
    ELSE IF ExcelLink(resp.links) = <<>> THEN Return(None)
    ELSE IF resp.download # "ok"
    THEN (IF IsRequestException(resp.download) THEN Return(None) ELSE Raise(resp.download))
    ELSE Return(ExcelLink(resp.links))

\* Lines 107-111: the file the download leaves in TEMP_DIR: the manifest, or
\* the part of it written before the connection timed out.
ExcelFilesWritten(resp) ==
    IF resp.outcome = "ok" /\ ExcelLink(resp.links) # <<>>
       /\ resp.download \in {"ok", "timeout"}
    THEN {ExcelLink(resp.links)} ELSE {}

(***************************************************************************)
(* Pipeline Orchestrator: run_complete_workflow, the __main__ block, and   *)
(* run_spec_tracking.                                                      *)
(***************************************************************************)
MaxFolders == 2

\* Line 15, the clauses of CLAUSES_DATABASE the model's documents can name.
CLAUSES_DATABASE == {Clause43, Clause51, Clause64, Clause642}

\* The progress reported after folder discovery (section 4.6: "a fixed
\* small increment after folder discovery").
DiscoveryProgress == 10

\* Section 4.6: linear interpolation across the remaining range,
\* proportional to the CRs processed.
ProgressAfterCr(done, total) ==
    DiscoveryProgress + ((100 - DiscoveryProgress) * done) \div total

Entries == {"run_complete_workflow", "__main__"}

RunLocals0 ==
    [meeting_folders |-> <<>>, folder_idx |-> 0, folder_href |-> <<>>,
     relevant_crs |-> <<>>, cr_idx |-> 0, all_matches |-> <<>>]

\* Section 4.6: run_spec_tracking "skips any folder with no manifest or no
\* filtered CR references".
TrackingAfterEmptyFolder == "folder"

\* Section 4.6: run_spec_tracking "processes every reference in that folder,
\* then stops".
TrackingAfterLastCr == "report"

\* Section 4.6: run_spec_tracking passes its progress to the progress
\* callback; the orchestrators of src/main.py have none.
ProgressReport(e, calls, v) ==
    IF e = "run_spec_tracking" THEN Append(calls, v) ELSE calls

\* Lines 517-519 and 617-618: what follows a folder whose manifest gives no
\* CR reference: run_complete_workflow goes on to the next folder, the
\* __main__ block has chosen its folder and goes to the report.
AfterEmptyFolder(e) ==
    IF e = "__main__" THEN "report"
    ELSE IF e = "run_complete_workflow" THEN "folder"
    ELSE TrackingAfterEmptyFolder

\* A plausible slip: run_complete_workflow leaves its folder loop after the
\* first folder that gave CR references.
AfterLastCrBreak(e) == "report"

\* Lines 543 and 647: what follows the last CR reference of a folder:
\* run_complete_workflow goes on to the next folder, the __main__ block
\* stops.
AfterLastCr(e) ==
    IF e = "run_complete_workflow" THEN "folder"
    ELSE IF e = "__main__" THEN "report"
    ELSE TrackingAfterLastCr

\* A plausible slip: the new record goes to the head of the list.
RecordMatchFront(all_matches, present, match) ==
    IF present THEN <<match>> \o all_matches ELSE all_matches

\* Lines 529-541 and 628-640: a present result gives one record, appended to
\* all_matches; an absent one gives none.
RecordMatch(all_matches, present, match) ==
    IF present THEN Append(all_matches, match) ELSE all_matches

\* The results file: missing, or holding a list.
ResultsFile(exists, data) == [exists |-> exists, data |-> data]

\* src/app.py lines 31-41: the list in the results file, made empty if the
\* file is missing, with the result appended.
update_results(file, result) ==
    [exists |-> TRUE, data |-> Append(file.data, result)]

\* Section 4.6: run_spec_tracking, "on a present result, builds a MatchRecord
\* and emits it via a result callback"; the callback is update_results.
ResultReport(e, file, present, match) ==
    IF e = "run_spec_tracking" /\ present THEN update_results(file, match) ELSE file

\* Lines 491-493, 576-578, 602-604: the orchestrator stops early.
Halted(e, why, progress) ==
    /\ opc' = why
    /\ progress_calls' = ProgressReport(e, progress, 100)

\* The document base of a call's folder serves the same archives everywhere:
\* what the server answers for an archive id.
ServerZip(rp) ==
    IF rp = <<"RP-5">>
    THEN ZipResponse("ok", 1, ZipArchive(TRUE,
            << Entry(<<"CR_", "R4-1", ".docx">>, TRUE, DocMatch),
               Entry(<<"more", ".zip">>, TRUE, ZipArchive(TRUE,
                  << Entry(<<"in_", "R4-2", ".docx">>, TRUE, DocNoMatch) >>)) >>))
    ELSE IF rp = <<"RP-6">>
    THEN ZipResponse("timeout", 0, None)
    ELSE IF rp = <<"RP-7">>
    THEN ZipResponse("ok", 1, ZipArchive(TRUE,
            << Entry(<<"R4-1", ".docx">>, TRUE, DocMatch51) >>))
    ELSE ZipResponse("ok", 0, None)

\* src/app.py lines 48-66: POST /start-tracking writes progress 0 and starts
\* the thread that runs run_spec_tracking.
start_tracking ==
    /\ opc = "init"
    /\ opc' = "start"
    /\ progress_calls' = Append(progress_calls, 0)
    /\ results_file' = ResultsFile(TRUE, <<>>)
    /\ UNCHANGED <<progress_file, app_threads, polls>>
    /\ UNCHANGED <<folderVars, filterVars, matcherVars, fetchVars, entry, server_docs,
                   run_locals, docs_response, excel_out, run_log, report>>

\* Lines 489-495 and 574-580
RunDiscover ==
    /\ opc = "start"
    /\ LET r == get_sorted_meeting_folders(index_response)
           p0 == ProgressReport(entry, progress_calls, 0)
       IN  /\ folders_out' = r
           /\ IF r.kind = "raise"
              THEN /\ opc' = "crashed"
                   /\ progress_calls' = p0
                   /\ run_locals' = run_locals
              ELSE IF r.value = <<>>
              THEN /\ Halted(entry, "halted_no_folders", p0)
                   /\ run_locals' = run_locals
              ELSE /\ opc' = "folder"
                   /\ progress_calls' = ProgressReport(entry, p0, DiscoveryProgress)
                   /\ run_locals' = [run_locals EXCEPT !.meeting_folders = r.value,
                                                       !.folder_idx = 1]
    /\ UNCHANGED appVars
    /\ UNCHANGED <<index_response, filterVars, matcherVars, fetchVars, entry,
                   server_docs, docs_response, excel_out, run_log, report>>

\* Lines 501-521 and 585-620: one folder: its manifest is looked for and
\* downloaded, and filtered when there is one.
RunFolder ==
    /\ opc = "folder"
    /\ IF run_locals.folder_idx > Len(run_locals.meeting_folders)
       THEN /\ IF entry = "run_complete_workflow"
               THEN opc' = "report" /\ progress_calls' = progress_calls
               ELSE Halted(entry, "halted_no_manifest", progress_calls)
            /\ UNCHANGED <<run_locals, docs_response, excel_out, run_log, scratch,
                           excel_file, spec_number, crs_out>>
       ELSE LET folder_href == run_locals.meeting_folders[run_locals.folder_idx]
                resp == server_docs[folder_href]
                excel_file_path == find_excel_in_docs(resp)
                skipped == [run_locals EXCEPT !.folder_idx = @ + 1]
            IN  /\ docs_response' = resp
                /\ excel_out' = excel_file_path
                /\ scratch' = scratch \cup ExcelFilesWritten(resp)
                /\ progress_calls' = progress_calls
                /\ IF excel_file_path.kind = "raise"
                   THEN /\ opc' = "crashed"
                        /\ run_locals' = run_locals
                        /\ run_log' = Append(run_log, <<"find_excel", folder_href>>)
                        /\ UNCHANGED <<excel_file, spec_number, crs_out>>
                   ELSE IF excel_file_path.value = None
                   THEN /\ opc' = "folder"
                        /\ run_locals' = skipped
                        /\ run_log' = Append(run_log, <<"find_excel", folder_href>>)
                        /\ UNCHANGED <<excel_file, spec_number, crs_out>>
                   ELSE LET relevant_crs == filter_approved_crs(resp.file, SPEC_NUMBER)
                        IN  /\ excel_file' = resp.file
                            /\ spec_number' = SPEC_NUMBER
                            /\ crs_out' = relevant_crs
                            /\ run_log' = run_log \o << <<"find_excel", folder_href>>,
                                                        <<"filter", folder_href>> >>
                            /\ IF relevant_crs.value = <<>>
                               THEN /\ opc' = AfterEmptyFolder(entry)
                                    /\ run_locals' = skipped
                               ELSE /\ opc' = "cr"
                                    /\ run_locals' =
                                         [run_locals EXCEPT
                                            !.folder_href = folder_href,
                                            !.relevant_crs = relevant_crs.value,
                                            !.cr_idx = 1]
    /\ UNCHANGED appVars
    /\ UNCHANGED <<folderVars, matcherVars, fpc, fetch_call, fetch_locals, events,
                   remove_failed, entry, server_docs, report>>

\* Lines 524-527 and 623-626: the next CR reference goes to
\* process_rp_archive; lines 543 and 647 after the last one.
RunCr ==
    /\ opc = "cr"
    /\ IF run_locals.cr_idx > Len(run_locals.relevant_crs)
       THEN /\ opc' = AfterLastCr(entry)
            /\ run_locals' = [run_locals EXCEPT !.folder_idx = @ + 1]
            /\ UNCHANGED <<fetchVars, run_log>>
       ELSE LET cr == run_locals.relevant_crs[run_locals.cr_idx]
            IN  /\ opc' = "fetching"
                /\ fpc' = "start"
                /\ fetch_call' = FetchCall(StrCell(cr[1]), cr[2], CLAUSES_DATABASE,
                                           ServerZip(cr[1]))
                /\ fetch_locals' = FetchLocals0
                /\ events' = <<>>
                /\ run_log' = Append(run_log,
                                     <<"fetch", run_locals.folder_href, cr[1], cr[2]>>)
                /\ UNCHANGED <<run_locals, scratch, remove_failed>>
    /\ UNCHANGED appVars
    /\ UNCHANGED <<folderVars, filterVars, matcherVars, entry, server_docs,
                   docs_response, excel_out, progress_calls, report>>

\* Lines 529-541 and 628-640: the result of process_rp_archive is recorded.
RunCrReturn ==
    /\ opc = "fetching"
    /\ fpc = "returned"
    /\ LET result == fetch_locals.result
           cr == run_locals.relevant_crs[run_locals.cr_idx]
           match == [meeting_folder |-> run_locals.folder_href,
                     rp_number |-> cr[1], r4_document |-> cr[2],
                     matching_clause |-> result.matching_clause,
                     summary_of_change |-> result.summary_of_change]
       IN  /\ run_locals' = [run_locals EXCEPT
                               !.all_matches = RecordMatch(@, result # None, match),
                               !.cr_idx = @ + 1]
           /\ results_file' = ResultReport(entry, results_file, result # None, match)
           /\ progress_calls' =
                ProgressReport(entry, progress_calls,
                    ProgressAfterCr(run_locals.cr_idx, Len(run_locals.relevant_crs)))
    /\ opc' = "cr"
    /\ fpc' = "idle"
    /\ UNCHANGED <<progress_file, app_threads, polls>>
    /\ UNCHANGED <<folderVars, filterVars, matcherVars, fetch_call, fetch_locals,
                   scratch, events, remove_failed, entry, server_docs, docs_response,
                   excel_out, run_log, report>>

\* Lines 546-563 and 650-666: the report file is written, empty or not.
RunReport ==
    /\ opc = "report"
    /\ opc' = "completed"
    /\ report' = run_locals.all_matches
    /\ progress_calls' = ProgressReport(entry, progress_calls, 100)
    /\ UNCHANGED appVars
    /\ UNCHANGED <<folderVars, filterVars, matcherVars, fetchVars, entry, server_docs,
                   run_locals, docs_response, excel_out, run_log>>

(***************************************************************************)
(* The specifications of the stages.                                       *)
(***************************************************************************)
FoldersIdle ==
    /\ index_response = None
    /\ folders_out = NotCalled

FilterIdle ==
    /\ excel_file = None
    /\ spec_number = <<>>
    /\ crs_out = NotCalled

MatcherIdle ==
    /\ docx_file = None
    /\ clauses_db = {}
    /\ match_out = NotCalled

AppIdle ==
    /\ results_file = ResultsFile(FALSE, <<>>)
    /\ progress_file = <<>>
    /\ app_threads = <<>>
    /\ polls = <<>>

RunIdle ==
    /\ entry = "none"
    /\ opc = "idle"
    /\ server_docs = None
    /\ run_locals = RunLocals0
    /\ docs_response = None
    /\ excel_out = NotCalled
    /\ run_log = <<>>
    /\ progress_calls = <<>>
    /\ report = None

InitFolders ==
    /\ index_response \in IndexResponses
    /\ folders_out = NotCalled
    /\ FilterIdle
    /\ MatcherIdle
    /\ FetchIdle
    /\ RunIdle
    /\ AppIdle

DiscoverFolders ==
    /\ folders_out = NotCalled
    /\ folders_out' = get_sorted_meeting_folders(index_response)
    /\ UNCHANGED <<index_response, filterVars, matcherVars, fetchVars, runVars, appVars>>

NextFolders == DiscoverFolders

SpecFolders == InitFolders /\ [][NextFolders]_vars

InitFilter ==
    /\ excel_file \in ExcelFiles
    /\ spec_number = SPEC_NUMBER
    /\ crs_out = NotCalled
    /\ FoldersIdle
    /\ MatcherIdle
    /\ FetchIdle
    /\ RunIdle
    /\ AppIdle

FilterManifest ==
    /\ crs_out = NotCalled
    /\ crs_out' = filter_approved_crs(excel_file, spec_number)
    /\ UNCHANGED <<excel_file, spec_number, folderVars, matcherVars, fetchVars, runVars, appVars>>

NextFilter == FilterManifest

SpecFilter == InitFilter /\ [][NextFilter]_vars

InitMatcher ==
    /\ \/ (docx_file \in DocxFiles /\ clauses_db \in ClauseSets)
       \/ (docx_file \in SummaryDocxFiles /\ clauses_db = {Clause64})
    /\ match_out = NotCalled
    /\ FoldersIdle
    /\ FilterIdle
    /\ FetchIdle
    /\ RunIdle
    /\ AppIdle

MatchClauses ==
    /\ match_out = NotCalled
    /\ match_out' = search_docx_for_clauses(docx_file, clauses_db)
    /\ UNCHANGED <<docx_file, clauses_db, folderVars, filterVars, fetchVars, runVars, appVars>>

NextMatcher == MatchClauses

SpecMatcher == InitMatcher /\ [][NextMatcher]_vars

InitFetch ==
    /\ fpc = "start"
    /\ fetch_call \in FetchCalls
    /\ fetch_locals = FetchLocals0
    /\ scratch = {}
    /\ events = <<>>
    /\ remove_failed = FALSE
    /\ FoldersIdle
    /\ FilterIdle
    /\ MatcherIdle
    /\ RunIdle
    /\ AppIdle

FetchStep ==
    \/ FetchStart
    \/ FetchDownload
    \/ FetchVerify
    \/ FetchOpen
    \/ FetchSearch
    \/ FetchNestedExtract
    \/ FetchNestedOpen
    \/ FetchNestedCleanup
    \/ FetchFinally

NextFetch ==
    FetchStep /\ UNCHANGED <<folderVars, filterVars, matcherVars, runVars, appVars>>

SpecFetch == InitFetch /\ [][NextFetch]_vars

\* The servers of the runs: a listing of up to MaxFolders folders, or one
\* that fails, and for each folder what its Docs/ page gives.
RunRows ==
    { Row(TRUE, <<"TSGR_", "a">>, FALSE, "TSGR_a/", TRUE, TRUE, DateAug),
      Row(TRUE, <<"TSGR_", "c">>, FALSE, "TSGR_c/", TRUE, TRUE, DateSep) }

RunIndexResponses ==
    {IndexResponse("timeout", FALSE, <<>>), IndexResponse("ok", FALSE, <<>>)}
    \cup {IndexResponse("ok", TRUE, rows) : rows \in SeqUpTo(RunRows, MaxFolders)}

ManifestLinks == << <<"readme", ".txt">>, <<"CR_list", ".xlsx">> >>

ManifestOf(rp, r4, status) ==
    GoodSheet(<<SheetRow(StrCell(rp), StrCell(r4), StrCell(status),
                         StrCell(<<"38.101-1">>))>>)

DocsResponses ==
    { DocsResponse("timeout", <<>>, "ok", None),
      DocsResponse("ok", << <<"readme", ".txt">> >>, "ok", None),
      DocsResponse("ok", ManifestLinks, "unreachable", None),
      DocsResponse("ok", ManifestLinks, "ok",
                   ManifestOf(<<"RP-5">>, <<"R4-1">>, <<"rejected">>)),
      DocsResponse("ok", ManifestLinks, "ok",
                   ManifestOf(<<"RP-5">>, <<"R4-1", ",", " ", "R4-2">>, <<"approved">>)),
      DocsResponse("ok", ManifestLinks, "ok",
                   ManifestOf(<<"RP-6">>, <<"R4-1">>, <<"approved">>)),
      DocsResponse("ok", ManifestLinks, "ok",
                   GoodSheet(<< SheetRow(StrCell(<<"RP-5">>),
                                         StrCell(<<"R4-2", ",", "R4-1">>),
                                         StrCell(<<"approved">>), StrCell(<<"38.101-1">>)),
                                SheetRow(StrCell(<<"RP-7">>), StrCell(<<"R4-1">>),
                                         StrCell(<<"approved">>), StrCell(<<"38.101-1">>)) >>)) }

InitRunOf(e, pc) ==
    /\ entry = e
    /\ opc = pc
    /\ index_response \in RunIndexResponses
    /\ folders_out = NotCalled
    /\ server_docs \in [{"TSGR_a/", "TSGR_c/"} -> DocsResponses]
    /\ run_locals = RunLocals0
    /\ docs_response = None
    /\ excel_out = NotCalled
    /\ run_log = <<>>
    /\ progress_calls = <<>>
    /\ report = None
    /\ FilterIdle
    /\ MatcherIdle
    /\ FetchIdle
    /\ AppIdle

InitRun == \E e \in Entries : InitRunOf(e, "start")

NextRun ==
    \/ RunDiscover
    \/ RunFolder
    \/ RunCr
    \/ RunCrReturn
    \/ RunReport
    \/ (opc = "fetching" /\ FetchStep
          /\ UNCHANGED <<folderVars, filterVars, matcherVars, runVars, appVars>>)

SpecRun == InitRun /\ [][NextRun]_vars

InitTracking == InitRunOf("run_spec_tracking", "init")

NextTracking == start_tracking \/ NextRun

SpecTracking == InitTracking /\ [][NextTracking]_vars

\* Every orchestrator: the two of src/main.py and the one src/app.py runs.
InitPipeline == InitRun \/ InitTracking

SpecPipeline == InitPipeline /\ [][NextTracking]_vars

(***************************************************************************)
(* The web application of src/app.py: request threads and the background   *)
(* threads they start, interleaved.  A run's orchestrator is taken at the  *)
(* grain of its calls of the progress callback, the result callback and    *)
(* the Document Fetcher.                                                   *)
(***************************************************************************)
MaxStarts == 2
MaxPolls == 3
MaxCrs == 2

DigitChars == <<"0", "1", "2", "3", "4", "5", "6", "7", "8", "9">>

\* str(progress) as json.dump writes it (line 29).
RECURSIVE Digits(_)
Digits(v) ==
    IF v < 10 THEN <<DigitChars[v + 1]>>
    ELSE Append(Digits(v \div 10), DigitChars[(v % 10) + 1])

\* Line 29: the text of {"progress": v} after the key, the closing brace
\* included.
JsonText(v) == Append(Digits(v), "}")

\* Line 28-29: the file after a handle opened with 'w' is closed: the text
\* written at offset 0 over what the file holds by then.
Overlay(text, content) ==
    IF Len(content) > Len(text)
    THEN text \o SubSeq(content, Len(text) + 1, Len(content))
    ELSE text

IsDigit(c) == \E i \in 1..10 : DigitChars[i] = c

DigitValue(c) == (CHOOSE i \in 1..10 : DigitChars[i] = c) - 1

RECURSIVE ParseDigits(_)
ParseDigits(ds) ==
    IF ds = <<>> THEN 0 ELSE 10 * ParseDigits(Front(ds)) + DigitValue(Last(ds))

\* Line 76: json.load accepts the text of one object and nothing after it.
JsonValid(content) ==
    /\ Len(content) >= 2
    /\ Last(content) = "}"
    /\ \A i \in 1..(Len(content) - 1) : IsDigit(content[i])
    /\ (content[1] = "0" => Len(content) = 2)

\* src/app.py lines 68-79: GET /progress.  A missing file and a file that
\* json.load rejects both give 0.
progress(content) ==
    IF content = <<>> THEN 0
    ELSE IF JsonValid(content) THEN ParseDigits(Front(content))
    ELSE 0

\* The application's requests and threads leave the single-run view alone.
RestUnchanged == UNCHANGED <<folderVars, filterVars, matcherVars, fetchVars, runVars>>

\* A call of update_progress(v) about to open the file, to go on at `after`.
Reporting(t, v, after) ==
    [t EXCEPT !.pc = "open", !.v = v, !.after = after, !.reported = @ \cup {v}]

\* The values the runs have passed to update_progress so far.
ReportedSoFar == UNION {app_threads[i].reported : i \in 1..Len(app_threads)}

\* The MatchRecord a run emits for its k-th CR reference.
MatchRecordOf(i, k) == [run |-> i, cr |-> k]

\* Lines 48-56: POST /start-tracking with a spec number: nothing is tested
\* before update_progress(0) is called.
StartTrackingRequest ==
    /\ Len(app_threads) < MaxStarts
    /\ app_threads' = Append(app_threads,
                             [pc |-> "open", v |-> 0, after |-> "initialize",
                              total |-> 0, done |-> 0, reported |-> {0}])
    /\ UNCHANGED <<results_file, progress_file, polls>>
    /\ RestUnchanged

\* Line 28: open(PROGRESS_FILE, 'w') truncates the file.
UpdateProgressOpen(i) ==
    /\ app_threads[i].pc = "open"
    /\ progress_file' = <<>>
    /\ app_threads' = [app_threads EXCEPT ![i].pc = "dump"]
    /\ UNCHANGED <<results_file, polls>>
    /\ RestUnchanged

\* Line 29: json.dump and the close of the handle.
UpdateProgressDump(i) ==
    /\ app_threads[i].pc = "dump"
    /\ progress_file' = Overlay(JsonText(app_threads[i].v), progress_file)
    /\ app_threads' = [app_threads EXCEPT ![i].pc = app_threads[i].after]
    /\ UNCHANGED <<results_file, polls>>
    /\ RestUnchanged

\* Lines 57-64: the log and the result list are emptied and the thread is
\* started.
StartThread(i) ==
    /\ app_threads[i].pc = "initialize"
    /\ results_file' = ResultsFile(TRUE, <<>>)
    /\ app_threads' = [app_threads EXCEPT ![i].pc = "run"]
    /\ UNCHANGED <<progress_file, polls>>
    /\ RestUnchanged

\* Lines 22-24 and section 4.6: the run reports progress 0.
ThreadRun(i) ==
    /\ app_threads[i].pc = "run"
    /\ app_threads' = [app_threads EXCEPT ![i] = Reporting(@, 0, "discover")]
    /\ UNCHANGED <<results_file, progress_file, polls>>
    /\ RestUnchanged

\* Section 4.6: discovery and filtering give the CR references of the run;
\* with none the run halts and reports 100.
ThreadDiscover(i) ==
    /\ app_threads[i].pc = "discover"
    /\ \E n \in 0..MaxCrs :
          app_threads' =
              [app_threads EXCEPT ![i] =
                  IF n = 0 THEN Reporting(@, 100, "done")
                  ELSE Reporting([@ EXCEPT !.total = n], DiscoveryProgress, "cr")]
    /\ UNCHANGED <<results_file, progress_file, polls>>
    /\ RestUnchanged

\* src/main.py lines 188-204: process_rp_archive starts to write
\* TEMP_DIR/<rp_number>.zip.
ThreadFetchBegin(i) ==
    /\ app_threads[i].pc = "cr"
    /\ app_threads' = [app_threads EXCEPT ![i].pc = "fetching"]
    /\ UNCHANGED <<results_file, progress_file, polls>>
    /\ RestUnchanged

\* src/main.py lines 283-296: the finally block has removed the scratch
\* files and process_rp_archive returns, a result or None.
ThreadFetchEnd(i) ==
    /\ app_threads[i].pc = "fetching"
    /\ \E present \in BOOLEAN :
          LET t == app_threads[i]
              k == t.done + 1
              counted == [t EXCEPT !.done = k]
          IN  app_threads' =
                  [app_threads EXCEPT ![i] =
                      IF present THEN [counted EXCEPT !.pc = "emit"]
                      ELSE Reporting(counted, ProgressAfterCr(k, t.total),
                                     IF k = t.total THEN "last" ELSE "cr")]
    /\ UNCHANGED <<results_file, progress_file, polls>>
    /\ RestUnchanged

\* Section 4.6 and src/app.py lines 31-41: the MatchRecord is emitted via
\* the result callback, then the progress is reported.
ThreadEmit(i) ==
    /\ app_threads[i].pc = "emit"
    /\ LET t == app_threads[i]
       IN  /\ results_file' = update_results(results_file, MatchRecordOf(i, t.done))
           /\ app_threads' =
                  [app_threads EXCEPT ![i] =
                      Reporting(t, ProgressAfterCr(t.done, t.total),
                                IF t.done = t.total THEN "last" ELSE "cr")]
    /\ UNCHANGED <<progress_file, polls>>
    /\ RestUnchanged

\* Section 4.6: the run completes and reports 100.
ThreadComplete(i) ==
    /\ app_threads[i].pc = "last"
    /\ app_threads' = [app_threads EXCEPT ![i] = Reporting(@, 100, "done")]
    /\ UNCHANGED <<results_file, progress_file, polls>>
    /\ RestUnchanged

\* src/app.py lines 68-79: a request thread serves GET /progress.
PollProgress ==
    /\ Len(polls) < MaxPolls
    /\ polls' = Append(polls, [starts |-> Len(app_threads),
                               value |-> progress(progress_file),
                               reported |-> ReportedSoFar])
    /\ UNCHANGED <<results_file, progress_file, app_threads>>
    /\ RestUnchanged

InitApp ==
    /\ FoldersIdle
    /\ FilterIdle
    /\ MatcherIdle
    /\ FetchIdle
    /\ RunIdle
    /\ AppIdle

NextApp ==
    \/ StartTrackingRequest
    \/ PollProgress
    \/ \E i \in 1..Len(app_threads) : UpdateProgressOpen(i)
    \/ \E i \in 1..Len(app_threads) : UpdateProgressDump(i)
    \/ \E i \in 1..Len(app_threads) : StartThread(i)
    \/ \E i \in 1..Len(app_threads) : ThreadRun(i)
    \/ \E i \in 1..Len(app_threads) : ThreadDiscover(i)
    \/ \E i \in 1..Len(app_threads) : ThreadFetchBegin(i)
    \/ \E i \in 1..Len(app_threads) : ThreadFetchEnd(i)
    \/ \E i \in 1..Len(app_threads) : ThreadEmit(i)
    \/ \E i \in 1..Len(app_threads) : ThreadComplete(i)

SpecApp == InitApp /\ [][NextApp]_vars

(***************************************************************************)
(* C7: on every listing that get_sorted_meeting_folders returns from, the  *)
(* output holds exactly the qualifying rows whose timestamp parses, newest *)
(* first, rows of equal timestamp in their input order; a row whose        *)
(* timestamp does not parse is left out and the rows after it still come.  *)
(***************************************************************************)
KeptRows(rows) ==
    {i \in 1..Len(rows) : RowQualifies(rows[i]) /\ StrptimeOk(DateStr(rows[i]))}

\* Row j comes before row i in the output: newer, or as new and earlier.
ComesBefore(rows, j, i) ==
    \/ LexLess(DateStr(rows[i]), DateStr(rows[j]))
    \/ (DateStr(rows[i]) = DateStr(rows[j]) /\ j < i)

RankOf(rows, i) ==
    1 + Cardinality({j \in KeptRows(rows) : ComesBefore(rows, j, i)})

CommaPositions(s) == {i \in 1..Len(s) : s[i] = ","}

RECURSIVE SetToSortedSeq(_)
SetToSortedSeq(S) ==
    IF S = {} THEN <<>>
    ELSE LET m == CHOOSE x \in S : \A y \in S : x <= y
         IN  <<m>> \o SetToSortedSeq(S \ {m})

ClaimPieces(cell) ==
    IF cell.t # "str" THEN <<>>
    ELSE LET s == SelectSeq(cell.v, LAMBDA a : a # " ")
             cuts == <<0>> \o SetToSortedSeq(CommaPositions(s)) \o <<Len(s) + 1>>
         IN  [k \in 1..(Len(cuts) - 1) |-> SubSeq(s, cuts[k] + 1, cuts[k + 1] - 1)]

ClaimPasses(row, spec) ==
    /\ Lower(Strip(Str(row.status))) = <<"approved">>
    /\ Strip(Str(row.spec)) = spec

RECURSIVE Flatten(_)
Flatten(ss) == IF ss = <<>> THEN <<>> ELSE Head(ss) \o Flatten(Tail(ss))

\* The pairs the claim names, T(piece) being the token a piece gives.
ClaimPairs(rows, spec, T(_)) ==
    Flatten([k \in 1..Len(rows) |->
        IF ClaimPasses(rows[k], spec)
        THEN LET ps == SelectSeq(ClaimPieces(rows[k].r4), LAMBDA p : T(p) # <<>>)
             IN  [j \in 1..Len(ps) |-> <<Str(rows[k].rp), T(ps[j])>>]
        ELSE <<>>])

SheetIsRead(xls) ==
    xls.opens /\ "CR_Packs_List" \in xls.sheets /\ xls.reads /\ RequiredCols \subseteq xls.columns

Identity(p) == p

C8_PairPerNonEmptyToken ==
    (crs_out.kind = "return" /\ SheetIsRead(excel_file)) =>
        crs_out.value = ClaimPairs(excel_file.rows, spec_number, Identity)

(***************************************************************************)
(* C8 amended: the tokens are the pieces trimmed of surrounding            *)
(* whitespace, and a piece that is empty once trimmed gives no pair; the   *)
(* pairs come in sheet order, then token order, each with a non-empty      *)
(* archive id, and their number is the number of such tokens.              *)
(***************************************************************************)
C8_PairPerTrimmedToken ==
    (crs_out.kind = "return" /\ SheetIsRead(excel_file)) =>
        /\ crs_out.value = ClaimPairs(excel_file.rows, spec_number, Strip)
        /\ \A k \in 1..Len(crs_out.value) : crs_out.value[k][1] # <<>>

\* The spec's example: three pairs from "R4-111, R4-222,R4-333" and "RP-5".
C8_Witness ==
    /\ crs_out.kind = "return"
    /\ SheetIsRead(excel_file)
    /\ Len(excel_file.rows) = 1
    /\ excel_file.rows[1].r4 = StrCell(ExampleCell)
    /\ crs_out.value = << <<(<<"RP-5">>), (<<"R4-111">>)>>,
                          <<(<<"RP-5">>), (<<"R4-222">>)>>,
                          <<(<<"RP-5">>), (<<"R4-333">>)>> >>

(***************************************************************************)
(* C9: filter_approved_crs returns the empty sequence and raises nothing   *)
(* when the sheet is absent, a required column is missing, or opening or   *)
(* parsing the spreadsheet raises.                                         *)
(***************************************************************************)
C9_FailsToEmpty ==
    crs_out # NotCalled =>
        /\ crs_out.kind = "return"
        /\ ~SheetIsRead(excel_file) => crs_out.value = <<>>

C9_Witness ==
    /\ crs_out = Return(<<>>)
    /\ excel_file.opens /\ ~excel_file.reads

(***************************************************************************)
(* C10: the Clause Matcher returns a present result if and only if some    *)
(* clause-shaped token, trimmed, inside a search window (a block           *)
(* containing "clauses affected" in any case, plus up to the next 5        *)
(* blocks) is a member of clause_set; the returned clause is a member of   *)
(* clause_set, and the result is absent when there is no such token.       *)
(***************************************************************************)
\* The tokens of a block: its longest stretches of word atoms and dots, each
\* trimmed of the dots at its ends.
Stretches(b) ==
    {pq \in (1..Len(b)) \X (1..Len(b)) :
        /\ pq[1] <= pq[2]
        /\ \A k \in pq[1]..pq[2] : InClass(b[k])
        /\ (pq[1] = 1 \/ ~InClass(b[pq[1] - 1]))
        /\ (pq[2] = Len(b) \/ ~InClass(b[pq[2] + 1]))}

TrimmedToken(b, pq) ==
    LET inner == {k \in pq[1]..pq[2] : ~IsDot(b[k])}
    IN  IF inner = {} THEN <<>>
        ELSE SubSeq(b, CHOOSE k \in inner : \A m \in inner : k <= m,
                       CHOOSE k \in inner : \A m \in inner : m <= k)

TokensOf(b) == {TrimmedToken(b, pq) : pq \in Stretches(b)}

WindowOf(blocks, i) == {j \in 1..Len(blocks) : i <= j /\ j <= i + 5}

SomeWindowNames(blocks, db) ==
    \E i \in 1..Len(blocks) :
        /\ HasClausesAffected(blocks[i])
        /\ \E j \in WindowOf(blocks, i) : TokensOf(blocks[j]) \cap db # {}

C10_PresentIffTokenInWindow ==
    match_out # NotCalled =>
        /\ match_out.kind = "return"
        /\ (match_out.value # None) <=>
              (docx_file.opens /\ SomeWindowNames(docx_file.blocks, clauses_db))
        /\ match_out.value # None => match_out.value.matching_clause \in clauses_db

\* A clause 5 blocks after the "clauses affected" block is found, and one
\* 6 blocks after it is not.
C10_Witness ==
    /\ match_out # NotCalled
    /\ match_out.value # None
    /\ Len(docx_file.blocks) = 7
    /\ HasClausesAffected(docx_file.blocks[2])
    /\ \A k \in 1..7 : (k # 2 => ~HasClausesAffected(docx_file.blocks[k]))
    /\ \A k \in 1..7 : (docx_file.blocks[k] = Clause64 <=> k \in {1, 7})

(***************************************************************************)
(* C2: whenever process_rp_archive returns, on every path, neither the     *)
(* downloaded archive file nor an extracted document file is in scratch    *)
(* storage, provided no file removal failed.                               *)
(***************************************************************************)
HasEvent(kind, name) == \E k \in 1..Len(events) : events[k] = <<kind, name>>

\* The document files the call has extracted to scratch storage.
ExtractedDocuments ==
    {events[k][2] : k \in {i \in 1..Len(events) :
        events[i][1] = "extract" /\ Last(Lower(events[i][2])) = ".docx"}}

C2_NothingLeftOnReturn ==
    (fpc = "returned" /\ ~remove_failed /\ ~InvalidRpNumber(fetch_call.rp_number)) =>
        /\ ZipLocalPath(fetch_call.rp_number) \notin scratch
        /\ ExtractedDocuments \cap scratch = {}

(***************************************************************************)
(* C6: process_rp_archive returns absent and raises nothing when the       *)
(* downloaded archive is zero bytes long or does not open as an archive; a *)
(* zero-byte file is rejected before it is opened as an archive, and the   *)
(* Clause Matcher is not called in either case.                            *)
(***************************************************************************)
ZeroByteDownload ==
    /\ fetch_call # NoFetchCall
    /\ ~InvalidRpNumber(fetch_call.rp_number)
    /\ fetch_call.response.outcome = "ok"
    /\ fetch_call.response.size = 0

CorruptDownload ==
    /\ fetch_call # NoFetchCall
    /\ ~InvalidRpNumber(fetch_call.rp_number)
    /\ fetch_call.response.outcome = "ok"
    /\ fetch_call.response.size # 0
    /\ ~fetch_call.response.zip.valid

C6_ZeroByteOrCorruptIsAbsent ==
    (ZeroByteDownload \/ CorruptDownload) =>
        /\ fetch_locals.result = None
        /\ \A k \in 1..Len(events) : events[k][1] # "search_docx"
        /\ ZeroByteDownload => \A k \in 1..Len(events) : events[k][1] # "open"
        /\ fpc \in {"start", "download", "verify", "open", "finally", "returned"}

C6_Witness ==
    /\ ZeroByteDownload
    /\ fpc = "returned"
    /\ HasEvent("download", ZipLocalPath(fetch_call.rp_number))

(***************************************************************************)
(* C1: the folders are visited newest first, a folder with no manifest or  *)
(* with an empty filtered list is skipped, every CR reference of the first *)
(* folder that yields one goes to the Document Fetcher exactly once in     *)
(* list order, and no later folder is examined in the same run.            *)
(***************************************************************************)
NormalEnds == {"completed", "halted_no_folders", "halted_no_manifest"}

\* The folders whose manifest the run has looked for, in order.
LookedAt ==
    LET calls == SelectSeq(run_log, LAMBDA x : x[1] = "find_excel")
    IN  [k \in 1..Len(calls) |-> calls[k][2]]

\* The calls of the Document Fetcher, in order.
Fetched == SelectSeq(run_log, LAMBDA x : x[1] = "fetch")

HasManifest(href) == find_excel_in_docs(server_docs[href]).value # None

\* The CR references the folder yields on this server.
YieldOf(href) ==
    IF HasManifest(href)
    THEN filter_approved_crs(server_docs[href].file, SPEC_NUMBER).value
    ELSE <<>>

FetchesOf(href) ==
    [k \in 1..Len(YieldOf(href)) |->
        <<"fetch", href, YieldOf(href)[k][1], YieldOf(href)[k][2]>>]

RECURSIVE FetchesOfAll(_)
FetchesOfAll(F) ==
    IF F = <<>> THEN <<>> ELSE FetchesOf(Head(F)) \o FetchesOfAll(Tail(F))

\* The first place of F that satisfies P, 0 when none does.
FirstPlace(F, P(_)) ==
    LET ks == {k \in 1..Len(F) : P(F[k])}
    IN  IF ks = {} THEN 0 ELSE CHOOSE k \in ks : \A m \in ks : k <= m

Yields(href) == YieldOf(href) # <<>>

\* The run looked at the folders of F up to place k (all of them when k is
\* 0) and fetched the CR references of the folder at place k, nothing else.
StoppedAt(F, k) ==
    /\ LookedAt = (IF k = 0 THEN F ELSE SubSeq(F, 1, k))
    /\ Fetched = (IF k = 0 THEN <<>> ELSE FetchesOf(F[k]))

\* C1 as stated: a run that ends has stopped at the first folder that
\* yields a CR reference.
C1_SingleFolderSuccess ==
    opc \in NormalEnds =>
        StoppedAt(folders_out.value, FirstPlace(folders_out.value, Yields))

\* C1 as the code has it: run_complete_workflow looks at every folder
\* newest first and fetches the CR references of each folder that yields
\* any, once and in list order; the __main__ block stops at the first folder
\* in which a manifest is found, fetches its CR references once and in list
\* order, and examines no later folder.
C1_PolicyPerEntryPoint ==
    opc \in NormalEnds =>
        LET F == folders_out.value
        IN  /\ entry = "run_complete_workflow" =>
                  (LookedAt = F /\ Fetched = FetchesOfAll(F))
            /\ entry = "__main__" => StoppedAt(F, FirstPlace(F, HasManifest))

\* run_complete_workflow has fetched CR references of two folders.
C1_Witness ==
    /\ opc = "completed"
    /\ entry = "run_complete_workflow"
    /\ \E i, j \in 1..Len(Fetched) : Fetched[i][2] # Fetched[j][2]

(***************************************************************************)
(* C3: the values passed to the progress sink never decrease, start with   *)
(* 0, and the last one of a run that has ended is 100, whatever the end.   *)
(***************************************************************************)
RunEnds == NormalEnds \cup {"crashed"}

NonDecreasing(s) == \A k \in 1..(Len(s) - 1) : s[k] <= s[k + 1]

C3_ProgressEndsAt100 ==
    /\ NonDecreasing(progress_calls)
    /\ progress_calls # <<>> => progress_calls[1] = 0
    /\ opc \in RunEnds => (progress_calls # <<>> /\ Last(progress_calls) = 100)

(***************************************************************************)
(* C4: no failure of a step ends the run abnormally: the run never leaves  *)
(* the orchestrator through an exception.                                  *)
(***************************************************************************)
C4_NoAbnormalEnd == opc # "crashed"

(***************************************************************************)
(* C5: a transport error of the folder-index fetch, the document-index     *)
(* fetch, the manifest download or the archive download becomes the empty  *)
(* list or None, and leaves none of the three functions as an exception.   *)
(***************************************************************************)
ManifestTransportError(resp) ==
    \/ resp.outcome \in TransportErrors
    \/ (resp.outcome = "ok" /\ ExcelLink(resp.links) # <<>>
        /\ resp.download \in TransportErrors)

C5_TransportErrorsBecomeAbsent ==
    /\ (folders_out # NotCalled /\ index_response.outcome \in TransportErrors)
          => folders_out = Return(<<>>)
    /\ (excel_out # NotCalled /\ ManifestTransportError(docs_response))
          => excel_out = Return(None)
    /\ (fetch_call # NoFetchCall /\ fetch_call.response.outcome \in TransportErrors)
          => (/\ fetch_locals.result = None
              /\ fpc \in {"start", "download", "finally", "returned", "idle"}
              /\ ~HasEvent("open", ZipLocalPath(fetch_call.rp_number)))

\* A run in which an index fetch is past, a manifest download failed and an
\* archive download has failed.
C5_Witness ==
    /\ fpc = "returned"
    /\ fetch_call.response.outcome \in TransportErrors
    /\ \E href \in DOMAIN server_docs :
          /\ <<"find_excel", href>> \in {run_log[k] : k \in 1..Len(run_log)}
          /\ ManifestTransportError(server_docs[href])

(***************************************************************************)
(* C11: when a block has a summary header and a clause matched, the        *)
(* summary returned is the lines, joined by line breaks, of the non-empty  *)
(* blocks that are not repeats among the up to 10 blocks after the first   *)
(* summary header, up to and without the first block that looks like a     *)
(* section header; nothing at or after that block is in it.                *)
(***************************************************************************)
\* The blocks line 372 may look at after the header at block h.
AfterHeader(blocks, h) ==
    {j \in 1..Len(blocks) : h < j /\ j <= h + 10}

\* A block that is neither blank nor the header line again.
IsContent(b) == Strip(b) # <<>> /\ Lower(Strip(b)) \notin RepeatedHeaders

\* Short, and entirely upper-case or ending with a colon, and not a benign
\* phrase: the heuristic as the claim words it, "short" being the length
\* each of the two tests allows.
LooksLikeHeaderAsClaimed(b) ==
    /\ Lower(b) \notin BenignUpper
    /\ \/ (IsUpper(b) /\ StrLen(b) < 100)
       \/ (EndsWithColon(b) /\ StrLen(b) < 50)

\* The heuristic of lines 387-393: a block that ends with a colon is no
\* header when it holds one of the keywords of line 393.
LooksLikeHeaderWithKeywords(b) ==
    /\ Lower(b) \notin BenignUpper
    /\ \/ (IsUpper(b) /\ StrLen(b) < 100)
       \/ (EndsWithColon(b) /\ StrLen(b) < 50 /\ ~HasKeyword(Lower(b)))

\* The places of the content blocks after header h that come before the
\* first content block that looks like a section header by H.
SummaryPlaces(blocks, h, H(_)) ==
    {j \in AfterHeader(blocks, h) :
        /\ IsContent(blocks[j])
        /\ \A m \in AfterHeader(blocks, h) :
              (m <= j /\ IsContent(blocks[m])) => ~H(Strip(blocks[m]))}

\* The lines at the places, in order, a line equal to the one before it
\* left out.
RECURSIVE SummaryLines(_, _)
SummaryLines(blocks, places) ==
    IF places = <<>> THEN <<>>
    ELSE LET before == SummaryLines(blocks, Front(places))
             line == Strip(blocks[Last(places)])
         IN  IF before # <<>> /\ Last(before) = line THEN before
             ELSE Append(before, line)

ClaimSummary(blocks, H(_)) ==
    LET h == CHOOSE i \in 1..Len(blocks) :
                /\ HasSummaryHeader(blocks[i])
                /\ \A m \in 1..(i - 1) : ~HasSummaryHeader(blocks[m])
    IN  JoinLines(SummaryLines(blocks,
            SetToSortedSeq(SummaryPlaces(blocks, h, H))))

SummaryCase ==
    /\ match_out.kind = "return"
    /\ match_out.value # None
    /\ \E i \in 1..Len(docx_file.blocks) : HasSummaryHeader(docx_file.blocks[i])

\* C11 as stated.
C11_SummaryStopsAtHeader ==
    SummaryCase =>
        match_out.value.summary_of_change =
            ClaimSummary(docx_file.blocks, LooksLikeHeaderAsClaimed)

\* C11 with the keywords of line 393: a block that ends with a colon and
\* holds a keyword is content, not a section header.
C11_SummaryStopsAtHeaderWithKeywords ==
    SummaryCase =>
        match_out.value.summary_of_change =
            ClaimSummary(docx_file.blocks, LooksLikeHeaderWithKeywords)

\* The spec's example, after a block that names the clause.
C11_Witness ==
    /\ docx_file.blocks = <<BlockClauses64, BlockSummaryHeader, BlockFirstLine,
                            <<" ">> \o BlockSecondLine \o <<" ">>,
                            BlockConsequences, <<"ignored">> >>
    /\ match_out = Return([matching_clause |-> Clause64,
                           summary_of_change |->
                              BlockFirstLine \o <<"\n">> \o BlockSecondLine])

(***************************************************************************)
(* C16: only the first block that contains "clauses affected", with its    *)
(* window of up to 5 blocks after it, decides the result: the result is    *)
(* present exactly when that window names a clause of clause_set, and the  *)
(* clause returned is the first such token of that window in text order.   *)
(***************************************************************************)
\* The blocks that contain "clauses affected".
Occurrences(blocks) == {i \in 1..Len(blocks) : HasClausesAffected(blocks[i])}

\* The least number of a non-empty set of numbers.
Least(S) == CHOOSE x \in S : \A y \in S : x <= y

NamesClause(b, db) == TokensOf(b) \cap db # {}

WindowNames(blocks, i, db) ==
    \E j \in WindowOf(blocks, i) : NamesClause(blocks[j], db)

\* The first token, in text order, of the window of block i that is a clause
\* of db.
FirstClauseOfWindow(blocks, i, db) ==
    LET j == Least({m \in WindowOf(blocks, i) : NamesClause(blocks[m], db)})
        b == blocks[j]
        starts == {pq[1] : pq \in {x \in Stretches(b) : TrimmedToken(b, x) \in db}}
        pq == CHOOSE x \in Stretches(b) : x[1] = Least(starts)
    IN  TrimmedToken(b, pq)

C16_FirstOccurrenceDecides ==
    (match_out # NotCalled /\ docx_file.opens) =>
        LET blocks == docx_file.blocks
            first_names == /\ Occurrences(blocks) # {}
                           /\ WindowNames(blocks, Least(Occurrences(blocks)), clauses_db)
        IN  /\ (match_out.value # None) <=> first_names
            /\ match_out.value # None =>
                  match_out.value.matching_clause =
                     FirstClauseOfWindow(blocks, Least(Occurrences(blocks)), clauses_db)

(***************************************************************************)
(* C17: when a clause matched and no block has a summary header, the       *)
(* summary is the text collected from the blocks that follow the "clauses  *)
(* affected" block whose window gave the returned clause, up to the first  *)
(* block that looks like a section header.                                 *)
(***************************************************************************)
\* The block whose window gave the returned clause: the first occurrence
\* whose window names a clause of db.
ProducingOccurrence(blocks, db) ==
    Least({i \in Occurrences(blocks) : WindowNames(blocks, i, db)})

\* The text lines 415-426 collect when they start after block i.
FallbackAfter(blocks, i) ==
    CollectFallback(blocks, i + 1, Min(Len(blocks), i + 14), <<>>)

C17_FallbackFollowsProducingBlock ==
    (/\ match_out # NotCalled
     /\ match_out.value # None
     /\ FirstSummaryHeader(docx_file.blocks) = 0) =>
        match_out.value.summary_of_change =
            FallbackAfter(docx_file.blocks,
                          ProducingOccurrence(docx_file.blocks, clauses_db))

(***************************************************************************)
(* C14: nested archives are consulted only when no entry of the outer      *)
(* archive matches the document; the candidates are then extracted and     *)
(* opened one at a time in listing order, the first nested archive that    *)
(* contains a matching document determines the result and no candidate     *)
(* after it is extracted or opened; within an archive the first matching   *)
(* entry in listing order wins.                                            *)
(***************************************************************************)
\* The call has returned after it opened a valid outer archive.
ReturnedFromArchive ==
    /\ fpc = "returned"
    /\ fetch_call # NoFetchCall
    /\ ~InvalidRpNumber(fetch_call.rp_number)
    /\ fetch_call.response.outcome = "ok"
    /\ fetch_call.response.size # 0
    /\ fetch_call.response.zip.valid

\* The places of the entries that match the document, and of the entries
\* that are candidate nested archives.
MatchingPlaces(entries, r4) ==
    {k \in 1..Len(entries) : NameMatches(r4, entries[k].name)}

CandidatePlaces(entries) == {k \in 1..Len(entries) : IsZipName(entries[k].name)}

\* The nested archive holds an entry that matches the document.
ContainsMatch(e, r4) ==
    /\ e.content.kind = "zip"
    /\ e.content.valid
    /\ MatchingPlaces(e.content.entries, r4) # {}

\* The names of the nested archives, and of the documents, the call has
\* extracted, in the order of their extraction.
NamesOf(evs) == [k \in 1..Len(evs) |-> evs[k][2]]

NestedExtracted ==
    NamesOf(SelectSeq(events, LAMBDA x : x[1] = "extract" /\ IsZipName(x[2])))

DocumentsExtracted ==
    NamesOf(SelectSeq(events, LAMBDA x : x[1] = "extract" /\ ~IsZipName(x[2])))

NestedOpened ==
    NamesOf(SelectSeq(events, LAMBDA x :
        x[1] = "open" /\ x[2] # ZipLocalPath(fetch_call.rp_number)))

\* What the first matching entry of the archive gives as the result.
ResultOfFirstMatch(entries, r4, db) ==
    LET e == entries[Least(MatchingPlaces(entries, r4))]
    IN  IF e.crc_ok THEN search_docx_for_clauses(e.content, db).value ELSE None

NameOfFirstMatch(entries, r4) == entries[Least(MatchingPlaces(entries, r4))].name

C14_FirstNestedMatchDecides ==
    ReturnedFromArchive =>
        LET entries == fetch_call.response.zip.entries
            r4 == fetch_call.r4_doc_name
            db == fetch_call.clauses_db
            cands == SetToSortedSeq(CandidatePlaces(entries))
            holders == {p \in 1..Len(cands) : ContainsMatch(entries[cands[p]], r4)}
            upto == IF holders = {} THEN Len(cands) ELSE Least(holders)
            tried == [p \in 1..upto |-> entries[cands[p]].name]
        IN  IF MatchingPlaces(entries, r4) # {}
            THEN /\ NestedExtracted = <<>>
                 /\ NestedOpened = <<>>
                 /\ DocumentsExtracted = <<NameOfFirstMatch(entries, r4)>>
                 /\ fetch_locals.result = ResultOfFirstMatch(entries, r4, db)
            ELSE /\ NestedExtracted = tried
                 /\ NestedOpened = tried
                 /\ IF holders = {}
                    THEN /\ DocumentsExtracted = <<>>
                         /\ fetch_locals.result = None
                    ELSE LET inner == entries[cands[Least(holders)]].content.entries
                         IN  /\ DocumentsExtracted = <<NameOfFirstMatch(inner, r4)>>
                             /\ fetch_locals.result = ResultOfFirstMatch(inner, r4, db)

(***************************************************************************)
(* C15: every nested archive extracted to scratch storage is deleted       *)
(* before the next candidate is extracted and before the function returns, *)
(* whatever became of it, and at most one nested archive file is in        *)
(* scratch storage at any time, provided no file removal failed.           *)
(***************************************************************************)
NestedArchivesInScratch ==
    {n \in scratch : IsZipName(n) /\ n # ZipLocalPath(fetch_call.rp_number)}

C15_NestedArchivesRemoved ==
    (fetch_call # NoFetchCall /\ ~InvalidRpNumber(fetch_call.rp_number)
     /\ ~remove_failed) =>
        /\ Cardinality(NestedArchivesInScratch) <= 1
        /\ fpc \in {"nested_extract", "returned"} => NestedArchivesInScratch = {}

(***************************************************************************)
(* C12: the result sink gets one record for each CR reference whose        *)
(* Document Fetcher result is present and none for an absent result, and   *)
(* the records, like the rows of the report, are in discovery order: by    *)
(* folder, then in the order the folder's CR references were processed.    *)
(***************************************************************************)
\* What the Document Fetcher gives for a document on an archive whose
\* entries are all sound: absent without a readable archive, else the first
\* direct match, else the first match of the first nested archive with one.
FetcherResult(resp, r4, db) ==
    IF resp.outcome # "ok" \/ resp.size = 0 \/ ~resp.zip.valid THEN None
    ELSE LET entries == resp.zip.entries
             cands == SetToSortedSeq(CandidatePlaces(entries))
             holders == {p \in 1..Len(cands) : ContainsMatch(entries[cands[p]], r4)}
         IN  IF MatchingPlaces(entries, r4) # {}
             THEN ResultOfFirstMatch(entries, r4, db)
             ELSE IF holders = {} THEN None
             ELSE ResultOfFirstMatch(entries[cands[Least(holders)]].content.entries,
                                     r4, db)

\* The calls of the Document Fetcher that have returned, in order.
FetchedAndReturned == IF opc = "fetching" THEN Front(Fetched) ELSE Fetched

\* One record for each call of fs with a present result, in the order of fs.
RECURSIVE RecordsOf(_)
RecordsOf(fs) ==
    IF fs = <<>> THEN <<>>
    ELSE LET f == Last(fs)
             result == FetcherResult(ServerZip(f[3]), f[4], CLAUSES_DATABASE)
         IN  IF result = None THEN RecordsOf(Front(fs))
             ELSE Append(RecordsOf(Front(fs)),
                         [meeting_folder |-> f[2], rp_number |-> f[3],
                          r4_document |-> f[4],
                          matching_clause |-> result.matching_clause,
                          summary_of_change |-> result.summary_of_change])

C12_OneRecordPerPresentResult ==
    /\ run_locals.all_matches = RecordsOf(FetchedAndReturned)
    /\ entry = "run_spec_tracking" => results_file.data = RecordsOf(FetchedAndReturned)
    /\ opc = "completed" => report = RecordsOf(Fetched)

\* A run has given the sink two different records, with an absent result
\* before them, and has written its report.
C12_Witness ==
    /\ entry = "run_spec_tracking"
    /\ opc = "completed"
    /\ Len(Fetched) = 3
    /\ Len(results_file.data) = 2
    /\ results_file.data[1] # results_file.data[2]
    /\ report = results_file.data

(***************************************************************************)
(* C13: at most one pipeline run is active at any time: no two runs are    *)
(* inside the Document Fetcher (downloading, extracting or deleting in     *)
(* scratch storage) together, and no start-tracking request resets the     *)
(* result list while a run that appends to it is still active.             *)
(***************************************************************************)
InHandler(t) ==
    \/ t.pc = "initialize"
    \/ (t.pc \in {"open", "dump"} /\ t.after = "initialize")

Running(t) == ~InHandler(t) /\ t.pc # "done"

RunsInFetcher == {i \in 1..Len(app_threads) : app_threads[i].pc = "fetching"}

RunsRunning == {i \in 1..Len(app_threads) : Running(app_threads[i])}

\* A request is about to empty the result list that a run is about to
\* append to.
ResetWhileAppending ==
    \E i, j \in 1..Len(app_threads) :
        app_threads[i].pc = "initialize" /\ app_threads[j].pc = "emit"

C13_AtMostOneRunActive ==
    /\ Cardinality(RunsInFetcher) <= 1
    /\ Cardinality(RunsRunning) <= 1
    /\ ~ResetWhileAppending

(***************************************************************************)
(* C18: while a single run executes, the values successive polls of        *)
(* /progress return never decrease, and each is a value the run has        *)
(* reported.                                                               *)
(***************************************************************************)
PollsOfSingleRun == {i \in 1..Len(polls) : polls[i].starts = 1}

C18_PollsNonDecreasing ==
    /\ \A i \in PollsOfSingleRun : polls[i].value \in polls[i].reported
    /\ \A i, j \in PollsOfSingleRun : i < j => polls[i].value <= polls[j].value

====
